---- MODULE Spec2Model ----
(***************************************************************************)
(* Deal store (services/dealStore.js, country-split revision) and deal     *)
(* lifecycle routes (routes/deals.js, strict-country revision) of the      *)
(* Deals-Scanner backend, as a state machine.                              *)
(*                                                                         *)
(* A deal is a record whose DOMAIN is the set of fields the JSON object    *)
(* carries.  A nullable field holds NULL (<<>>) or Some(v) (<<v>>).        *)
(* Timestamps are clock readings (integers); ids are drawn from a counter  *)
(* (crypto.randomUUID never repeats).  The createdAt / updatedAt stamps    *)
(* and the descriptive fields of a deal (price, category, image, notes)    *)
(* are left out; request bodies are taken to pass the price and url        *)
(* validation of the create routes.                                        *)
(***************************************************************************)
EXTENDS Integers, Sequences, FiniteSets, TLC

VARIABLES
    store,      \* country -> persisted file {deals, reports, alerts}
    points,     \* user id -> points (users.json)
    now,        \* the clock read by Date.now() / new Date()
    nextId,     \* next value handed out by crypto.randomUUID()
    awardLog,   \* deal id -> number of addUserPoints calls made for it
    resetLog,   \* deal id -> number of times its pointsAwarded flag was cleared
    call,       \* the last direct call of a dealStore export and its result
    env,        \* process.env: the affiliate configuration read at module load
    inflight,   \* POST /deals handlers suspended at their await, with the store they read
    acked,      \* the success responses sent while or after a handler was suspended
    legacyFiles, \* the files at the legacy single-store locations, in lookup order
    bootLog     \* what the migration did at each module load so far

vars == <<store, points, now, nextId, awardLog, resetLog, call, env, inflight, acked, legacyFiles, bootLog>>

\* ---------------------------------------------------------------- bounds
MaxId == 2
MaxTime == 1
MaxCount == 1
MaxReports == 1
MaxBatch == 1
MaxResets == 1
MaxAlerts == 2
MaxInflight == 1

\* ------------------------------------------------------------- constants
POINTS == 25
ADMIN_KEY == "secret"

Countries == {"CA", "US"}
Users == {"u1"}
Statuses == {"pending", "approved", "rejected", "disabled"}

NULL == <<>>
Some(v) == <<v>>

\* ------------------------------------------------------- generic helpers
\* { ...a, ...b }
Spread(a, b) ==
    [f \in (DOMAIN a) \cup (DOMAIN b) |-> IF f \in DOMAIN b THEN b[f] ELSE a[f]]

Has(d, f) == f \in DOMAIN d

\* d.f || dflt for a string-valued field (absent and "" are falsy)
StrOr(d, f, dflt) == IF Has(d, f) /\ d[f] # "" THEN d[f] ELSE dflt

\* d.f || dflt for a sequence-valued field (absent and empty are falsy)
SeqOr(d, f, dflt) == IF Has(d, f) /\ d[f] # <<>> THEN d[f] ELSE dflt

\* d.f || null for a nullable field
NullOr(d, f) == IF Has(d, f) THEN d[f] ELSE NULL

IdsOf(deals) == {deals[i].id : i \in DOMAIN deals}

\* ------------------------------------------------------------ characters
\* Titles are sequences of characters from {"A", "a", "b", "-"}; normalize
\* lower-cases and strips everything outside [a-z0-9].

ToLower(ch) == IF ch = "A" THEN "a" ELSE ch

IsAlnumLower(ch) == ch \in {"a", "b"}

RECURSIVE normalize(_)
normalize(str) ==
    IF str = <<>> THEN <<>>
    ELSE LET ch == ToLower(Head(str))
         IN  (IF IsAlnumLower(ch) THEN <<ch>> ELSE <<>>) \o normalize(Tail(str))

\* URLs are sequences of tokens: a scheme, a host, a path, then "?query" and
\* "#fragment" tokens.  new URL() rejects a string without a scheme.
SchemeTokens == {"https://"}
DroppedTokens == {"?tag=x", "#top"}

LowerToken(tok) == IF tok = "Shop.com" THEN "shop.com" ELSE tok

RECURSIVE StripAndLower(_)
StripAndLower(url) ==
    IF url = <<>> THEN <<>>
    ELSE (IF Head(url) \in DroppedTokens THEN <<>> ELSE <<LowerToken(Head(url))>>)
         \o StripAndLower(Tail(url))

\* normalizeUrl: search and hash cleared, lower-cased; null when it does
\* not parse
normalizeUrl(url) ==
    IF url = <<>> \/ Head(url) \notin SchemeTokens THEN NULL
    ELSE Some(StripAndLower(url))

\* ------------------------------------------------------------- dealStore
normalizeCountry(input) == IF input = "US" \/ input = "us" THEN "US" ELSE "CA"

\* getDealKey: source:{sourceKey}, else title:{normalize(title)}, else the
\* sha1 of the serialized record (injective on records).
getDealKey(deal) ==
    IF Has(deal, "sourceKey") /\ deal.sourceKey # ""
    THEN [kind |-> "source", s |-> <<deal.sourceKey>>, rec |-> <<>>]
    ELSE IF Has(deal, "title") /\ deal.title # <<>>
    THEN [kind |-> "title", s |-> normalize(deal.title), rec |-> <<>>]
    ELSE [kind |-> "hash", s |-> <<>>, rec |-> <<deal>>]

EmptyStore == [deals |-> <<>>, reports |-> <<>>, alerts |-> <<>>]

\* readDeals(country): the parsed file, arrays defaulted
readDeals(c) == store[normalizeCountry(c)]

\* writeDeals input forms
ArrInput(deals) == [kind |-> "array", deals |-> deals]
ObjInput(s) == [kind |-> "object", deals |-> Some(s.deals),
                reports |-> Some(s.reports), alerts |-> Some(s.alerts)]
InvalidInput == [kind |-> "invalid"]

InputDeals(input) ==
    IF input.kind = "array" THEN input.deals
    ELSE IF input.kind = "object" /\ input.deals # NULL THEN input.deals[1]
    ELSE <<>>

\* variant: the write goes through whatever the input holds
writeDealsUnguarded(current, input) ==
    IF input.kind = "invalid" THEN current
    ELSE [deals |-> InputDeals(input),
          reports |-> IF input.kind = "object" /\ input.reports # NULL
                      THEN input.reports[1] ELSE current.reports,
          alerts |-> IF input.kind = "object" /\ input.alerts # NULL
                     THEN input.alerts[1] ELSE current.alerts]

\* variant: a bare array replaces the whole file
writeDealsArrayAsFile(current, input) ==
    IF input.kind = "invalid" THEN current
    ELSE LET deals == InputDeals(input)
             reports == IF input.kind = "object" /\ input.reports # NULL
                        THEN input.reports[1]
                        ELSE IF input.kind = "array" THEN <<>> ELSE current.reports
             alerts == IF input.kind = "object" /\ input.alerts # NULL
                       THEN input.alerts[1]
                       ELSE IF input.kind = "array" THEN <<>> ELSE current.alerts
         IN  IF Len(current.deals) > 0 /\ Len(deals) = 0
             THEN current
             ELSE [deals |-> deals, reports |-> reports, alerts |-> alerts]

\* the file content writeDeals(country, input) leaves behind, given the
\* current content (the empty-write guard returns before the write)
writeDeals(current, input) ==
    IF input.kind = "invalid" THEN current
    ELSE LET deals == InputDeals(input)
             reports == IF input.kind = "object" /\ input.reports # NULL
                        THEN input.reports[1] ELSE current.reports
             alerts == IF input.kind = "object" /\ input.alerts # NULL
                       THEN input.alerts[1] ELSE current.alerts
         IN  IF Len(current.deals) > 0 /\ Len(deals) = 0
             THEN current
             ELSE [deals |-> deals, reports |-> reports, alerts |-> alerts]

\* An argument of an export: a string, an input value, or undefined.
StrArg(v) == [t |-> "string", str |-> v]
InArg(v) == [t |-> "input", v |-> v]
Undefined == [t |-> "undefined"]

\* the argument read as a writeDeals input (a string is neither an array
\* nor an object)
ArgInput(x) == IF x.t = "input" THEN x.v ELSE InvalidInput

extractDealsArray(input) ==
    IF input.kind = "array" THEN Some(input.deals)
    ELSE IF input.kind = "object" /\ input.deals # NULL THEN input.deals
    ELSE NULL

\* String(d.country || "").trim().toUpperCase() === "US"
DealIsUS(d) == Has(d, "country") /\ d.country \in {"US", "us"}

inferCountryFromInput(input) ==
    IF input.kind = "object" /\ Has(input, "country") /\ input.country # ""
    THEN Some(normalizeCountry(input.country))
    ELSE LET deals == extractDealsArray(input)
         IN  IF deals = NULL \/ deals[1] = <<>> THEN NULL
             ELSE IF \A i \in DOMAIN deals[1] : DealIsUS(deals[1][i])
             THEN Some("US")
             ELSE NULL

parseWriteArgs(a, b) ==
    IF a.t = "string" /\ b.t # "undefined"
    THEN [country |-> normalizeCountry(a.str), input |-> ArgInput(b), inferred |-> FALSE]
    ELSE IF inferCountryFromInput(ArgInput(a)) = Some("US")
    THEN [country |-> "US", input |-> ArgInput(a), inferred |-> TRUE]
    ELSE [country |-> "CA", input |-> ArgInput(a), inferred |-> FALSE]

\* writeDeals(a, b): the country it targets and the file it leaves there
WriteCall(a, b) ==
    LET p == parseWriteArgs(a, b)
    IN  [country |-> p.country,
         file |-> writeDeals(readDeals(p.country), p.input)]

\* ------------------------------------------------------------ upsertDeals
\* The JS Map, as a sequence of <<key, value>> entries in insertion order.
MapIndex(m, k) ==
    IF \E i \in DOMAIN m : m[i].k = k
    THEN CHOOSE i \in DOMAIN m : m[i].k = k
    ELSE 0

MapHas(m, k) == MapIndex(m, k) # 0

MapGet(m, k) == m[MapIndex(m, k)].v

MapSet(m, k, v) ==
    IF MapHas(m, k)
    THEN [m EXCEPT ![MapIndex(m, k)] = [k |-> k, v |-> v]]
    ELSE Append(m, [k |-> k, v |-> v])

RECURSIVE IndexExisting(_, _)
IndexExisting(existing, m) ==
    IF existing = <<>> THEN m
    ELSE IndexExisting(Tail(existing),
                       MapSet(m, getDealKey(Head(existing)), Head(existing)))

MapValues(m) == [i \in DOMAIN m |-> m[i].v]

\* raw.affiliateUrl || current.affiliateUrl || raw.url || current.url
ForcedUrl(current, raw) ==
    SeqOr(raw, "affiliateUrl",
        SeqOr(current, "affiliateUrl",
            SeqOr(raw, "url", SeqOr(current, "url", <<>>))))

\* undefined-valued properties are dropped by JSON.stringify
DropUndefinedUrl(d) ==
    [f \in {g \in DOMAIN d : ~(g \in {"url", "affiliateUrl"} /\ d[g] = <<>>)} |-> d[f]]

MergeStatus(current, raw) == StrOr(current, "status", "approved")

\* the merge branch: existing key
MergeDeal(current, raw) ==
    DropUndefinedUrl(
        Spread(Spread(current, raw),
               [affiliateUrl |-> ForcedUrl(current, raw),
                url |-> ForcedUrl(current, raw),
                id |-> current.id,
                status |-> MergeStatus(current, raw)]))

\* the insert branch: new key
InsertDeal(raw, id) ==
    Spread([id |-> id,
            status |-> StrOr(raw, "status", "approved"),
            expiresAt |-> NullOr(raw, "expiresAt")],
           raw)

\* the loop over incoming; acc = [map, nid, added, updated]
RECURSIVE UpsertLoop(_, _)
UpsertLoop(incoming, acc) ==
    IF incoming = <<>> THEN acc
    ELSE LET raw == Head(incoming)
             key == getDealKey(raw)
         IN  IF MapHas(acc.map, key)
             THEN UpsertLoop(Tail(incoming),
                    [acc EXCEPT !.map = MapSet(acc.map, key, MergeDeal(MapGet(acc.map, key), raw)),
                                !.updated = acc.updated + 1])
             ELSE UpsertLoop(Tail(incoming),
                    [acc EXCEPT !.map = MapSet(acc.map, key, InsertDeal(raw, acc.nid)),
                                !.nid = acc.nid + 1,
                                !.added = acc.added + 1])

\* upsertDeals(country, incoming): the file left behind, the ids consumed
\* and the counts returned
upsertDeals(current, incoming, nid) ==
    LET acc == UpsertLoop(incoming,
                   [map |-> IndexExisting(current.deals, <<>>),
                    nid |-> nid, added |-> 0, updated |-> 0])
        merged == MapValues(acc.map)
    IN  [file |-> writeDeals(current, [kind |-> "object", deals |-> Some(merged),
                                       reports |-> Some(current.reports),
                                       alerts |-> Some(current.alerts)]),
         nid |-> acc.nid,
         addedCount |-> acc.added,
         updatedCount |-> acc.updated,
         total |-> Len(merged)]

parseUpsertArgs(a, b) ==
    IF a.t = "string" /\ b.t # "undefined"
    THEN [country |-> normalizeCountry(a.str), incoming |-> ArgInput(b)]
    ELSE [country |-> "CA", incoming |-> ArgInput(a)]

\* upsertDeals(a, b): throws unless incoming is an array
UpsertCall(a, b) ==
    LET p == parseUpsertArgs(a, b)
    IN  IF p.incoming.kind # "array"
        THEN [threw |-> TRUE, country |-> p.country, file |-> readDeals(p.country),
              nid |-> nextId, addedCount |-> 0, updatedCount |-> 0, total |-> 0]
        ELSE LET r == upsertDeals(readDeals(p.country), p.incoming.deals, nextId)
             IN  [threw |-> FALSE, country |-> p.country, file |-> r.file,
                  nid |-> r.nid, addedCount |-> r.addedCount,
                  updatedCount |-> r.updatedCount, total |-> r.total]

\* resetDeals(): refuses
resetDeals == [ok |-> FALSE]

\* the affiliate variables of process.env; Unset is a process started with
\* none of them
EnvNames == {"AMAZON_TAG_CA", "AMAZON_TAG_US", "EBAY_CAMPAIGN_ID", "EBAY_CUSTOM_ID"}
Unset == [n \in EnvNames |-> NULL]

\* ---------------------------------------------------------------- routes
\* variant: any key that is sent passes
requireAdminAnyKey(key) == key # ""

requireAdmin(key) == key # "" /\ key = ADMIN_KEY

\* a request's country inputs: <<query.country, headers["x-country"], body.country>>
resolveCountry(req, allowBody) ==
    IF req[1] # "" THEN normalizeCountry(req[1])
    ELSE IF req[2] # "" THEN normalizeCountry(req[2])
    ELSE IF allowBody /\ req[3] # "" THEN normalizeCountry(req[3])
    ELSE "CA"

publicReadCountry(req) == resolveCountry(req, FALSE)
publicWriteCountry(req) == resolveCountry(req, TRUE)
adminCountry(req) == resolveCountry(req, TRUE)

storeCountry(country) == IF country = "US" THEN "us" ELSE "ca"

toNumOrZero(d, f) == IF Has(d, f) THEN d[f] ELSE 0

\* variant: a deal still counts as live at the instant it expires
isExpiredAfter(deal, nowMs) ==
    IF ~Has(deal, "expiresAt") \/ deal.expiresAt = NULL THEN FALSE
    ELSE deal.expiresAt[1] < nowMs

isExpired(deal, nowMs) ==
    IF ~Has(deal, "expiresAt") \/ deal.expiresAt = NULL THEN FALSE
    ELSE deal.expiresAt[1] <= nowMs

statusOf(deal) == StrOr(deal, "status", "")
isApproved(deal) == statusOf(deal) = "approved"
isDisabled(deal) == statusOf(deal) = "disabled"
isRejected(deal) == statusOf(deal) = "rejected"
isPending(deal) == statusOf(deal) = "pending"

\* the filter of GET /deals and the 404 conditions of GET /deals/:id
PublicVisible(deal, nowMs) ==
    isApproved(deal) /\ ~isDisabled(deal) /\ ~isExpired(deal, nowMs)

\* the ids GET /deals returns from a file at a given time
ListIds(s, nowMs) ==
    {s.deals[i].id : i \in {j \in DOMAIN s.deals : PublicVisible(s.deals[j], nowMs)}}

\* the ids GET /admin/deals returns from a file
AdminIds(s) == IdsOf(s.deals)

\* variant: an expired deal still counts
DealActiveIgnoringExpiry(deal, nowMs) ==
    ~(~isApproved(deal) \/ isDisabled(deal))

\* the condition under which click / view count
DealActive(deal, nowMs) ==
    ~(~isApproved(deal) \/ isDisabled(deal) \/ isExpired(deal, nowMs))

\* deals.findIndex(d => str(d.id) === needle); 0 when absent
findDealIndexById(s, id) ==
    IF \E i \in DOMAIN s.deals : s.deals[i].id = id
    THEN CHOOSE i \in DOMAIN s.deals :
            /\ s.deals[i].id = id
            /\ \A j \in DOMAIN s.deals : s.deals[j].id = id => i <= j
    ELSE 0

RECURSIVE RemoveById(_, _)
RemoveById(deals, id) ==
    IF deals = <<>> THEN <<>>
    ELSE IF Head(deals).id # id THEN <<Head(deals)>> \o RemoveById(Tail(deals), id)
    ELSE RemoveById(Tail(deals), id)

\* ---------------------------------------------------------------- inputs
T1 == <<"A", "b">>
T2 == <<"a", "-", "b">>
T3 == <<"b">>

U1 == <<"https://", "Shop.com", "/p1", "?tag=x">>
U2 == <<"https://", "shop.com", "/p1">>
U3 == <<"https://", "shop.com", "/p2", "#top">>
UBad == <<"shop", "/p1">>

Reqs == {<<"", "", "">>, <<"US", "", "">>, <<"", "US", "">>, <<"", "", "US">>}
BadKeys == {"", "wrong"}
AnyKeys == BadKeys \cup {ADMIN_KEY}
DealIds == 1..MaxId

RECURSIVE SeqsUpTo(_, _)
SeqsUpTo(S, n) ==
    IF n = 0 THEN {<<>>}
    ELSE LET shorter == SeqsUpTo(S, n - 1)
         IN  shorter \cup {Append(q, x) : q \in shorter, x \in S}

\* -------------------------------------------------------------- handlers
\* Each handler is a function of the persisted state and the request: the
\* response code, the country it resolved, and what it persists.

\* GET /deals
GetDealsResult(req) ==
    LET country == publicReadCountry(req)
        s == readDeals(storeCountry(country))
    IN  [code |-> 200, country |-> country,
         ids |-> ListIds(s, now)]

\* GET /deals/:id
GetDealResult(req, id) ==
    LET country == publicReadCountry(req)
        s == readDeals(storeCountry(country))
        idx == findDealIndexById(s, id)
    IN  IF idx = 0 THEN [code |-> 404, country |-> country, ids |-> {}]
        ELSE IF ~isApproved(s.deals[idx]) THEN [code |-> 404, country |-> country, ids |-> {}]
        ELSE IF isDisabled(s.deals[idx]) THEN [code |-> 404, country |-> country, ids |-> {}]
        ELSE IF isExpired(s.deals[idx], now) THEN [code |-> 404, country |-> country, ids |-> {}]
        ELSE [code |-> 200, country |-> country, ids |-> {s.deals[idx].id}]

\* the counter a click / view leaves on the deal
CountDeal(deal, field) ==
    Spread(deal,
           IF field = "clicks"
           THEN [clicks |-> toNumOrZero(deal, "clicks") + 1,
                 views |-> toNumOrZero(deal, "views")]
           ELSE [views |-> toNumOrZero(deal, "views") + 1])

\* POST /deals/:id/view (field = "views") and POST /deals/:id/click ("clicks")
CountResult(field, req, id) ==
    LET country == publicWriteCountry(req)
        s == readDeals(storeCountry(country))
        idx == findDealIndexById(s, id)
    IN  IF idx = 0
        THEN [code |-> 404, error |-> "Deal not found", country |-> country, file |-> s]
        ELSE IF ~DealActive(s.deals[idx], now)
        THEN [code |-> 400, error |-> "Deal not active", country |-> country, file |-> s]
        ELSE [code |-> 200, error |-> "", country |-> country,
              file |-> writeDeals(s, ObjInput([s EXCEPT !.deals[idx] =
                                                  CountDeal(s.deals[idx], field)]))]

\* variant: the admin key auto-approves, as the earlier revision of the
\* route did
SubmitStatusByKey(key, bodyStatus) ==
    IF key = ADMIN_KEY THEN "approved" ELSE "pending"

\* status of a deal created by POST /deals
SubmitStatus(key, bodyStatus) == "pending"

\* normalizeAmazonUrl on a host that is not Amazon's: "https://" put in
\* front of a string that does not start with "http", search and hash
\* cleared, the host lower-cased by the URL parser
normalizeAmazonUrl(inputUrl) ==
    IF inputUrl = <<>> THEN NULL
    ELSE Some(StripAndLower(IF Head(inputUrl) \in SchemeTokens THEN inputUrl
                            ELSE <<"https://">> \o inputUrl))

\* normalizeAmazonUrl(body.url) || str(body.url) || null
SubmitUrl(body) == normalizeAmazonUrl(body.url)

\* POST /deals; body = [title, status] and, when the request is followed
\* down to its link, url; user = req.user?.id || null
SubmitResult(req, key, body, user) ==
    LET country == publicWriteCountry(req)
        s == readDeals(storeCountry(country))
        link == IF Has(body, "url")
                THEN [url |-> SubmitUrl(body)[1], createdAt |-> now]
                ELSE <<>>
        deal == Spread([id |-> nextId,
                        title |-> body.title,
                        status |-> SubmitStatus(key, body.status),
                        country |-> country,
                        expiresAt |-> NULL,
                        views |-> 0,
                        clicks |-> 0,
                        createdByUserId |-> user,
                        pointsAwarded |-> FALSE], link)
    IN  IF body.title = <<>> \/ (Has(body, "url") /\ SubmitUrl(body) = NULL)
        THEN [code |-> 400, country |-> country, file |-> s, nid |-> nextId, deal |-> <<>>]
        ELSE [code |-> 201, country |-> country,
              file |-> writeDeals(s, ObjInput([s EXCEPT !.deals = <<deal>> \o s.deals])),
              nid |-> nextId + 1, deal |-> <<deal>>]

\* POST /deals/:id/report
ReportResult(req, id, reason) ==
    LET country == publicWriteCountry(req)
        s == readDeals(storeCountry(country))
        idx == findDealIndexById(s, id)
    IN  IF idx = 0 THEN [code |-> 404, country |-> country, file |-> s]
        ELSE IF reason = "" THEN [code |-> 400, country |-> country, file |-> s]
        ELSE LET report == [dealId |-> s.deals[idx].id, reason |-> reason,
                            status |-> "pending"]
             IN  [code |-> 200, country |-> country,
                  file |-> writeDeals(s, ObjInput([s EXCEPT !.reports = <<report>> \o s.reports]))]

\* GET /admin/deals
AdminListResult(key, req) ==
    LET country == adminCountry(req)
        s == readDeals(storeCountry(country))
    IN  IF ~requireAdmin(key) THEN [code |-> 403, country |-> country, ids |-> {}]
        ELSE [code |-> 200, country |-> country, ids |-> AdminIds(s)]

\* GET /admin/deals/pending
AdminPendingResult(key, req) ==
    LET country == adminCountry(req)
        s == readDeals(storeCountry(country))
    IN  IF ~requireAdmin(key) THEN [code |-> 403, country |-> country, ids |-> {}]
        ELSE [code |-> 200, country |-> country,
              ids |-> {s.deals[i].id : i \in {j \in DOMAIN s.deals : isPending(s.deals[j])}}]

\* POST /admin/deals; the country is body.country alone
AdminCreateResult(key, bodyCountry, title) ==
    LET country == normalizeCountry(bodyCountry)
        s == readDeals(storeCountry(country))
        deal == [id |-> nextId,
                 title |-> title,
                 status |-> "approved",
                 country |-> country,
                 expiresAt |-> NULL,
                 views |-> 0,
                 clicks |-> 0,
                 createdByUserId |-> NULL,
                 pointsAwarded |-> FALSE]
    IN  IF ~requireAdmin(key)
        THEN [code |-> 403, country |-> country, file |-> s, nid |-> nextId]
        ELSE IF title = <<>>
        THEN [code |-> 400, country |-> country, file |-> s, nid |-> nextId]
        ELSE [code |-> 201, country |-> country,
              file |-> writeDeals(s, ObjInput([s EXCEPT !.deals = <<deal>> \o s.deals])),
              nid |-> nextId + 1]

\* addUserPoints(userId, points): the users file left behind
addUserPoints(users, userId, delta) ==
    IF userId = "" THEN users
    ELSE [users EXCEPT ![userId] = IF users[userId] + delta < 0 THEN 0
                                   ELSE users[userId] + delta]

\* variant: every approve of a user-submitted deal awards
AwardDueUngated(deal) ==
    Has(deal, "createdByUserId") /\ deal.createdByUserId # NULL

\* deal.createdByUserId && !deal.pointsAwarded
AwardDue(deal) ==
    /\ Has(deal, "createdByUserId") /\ deal.createdByUserId # NULL
    /\ ~(Has(deal, "pointsAwarded") /\ deal.pointsAwarded)

\* POST /admin/deals/:id/approve
ApproveResult(key, req, id) ==
    LET country == adminCountry(req)
        s == readDeals(storeCountry(country))
        idx == findDealIndexById(s, id)
    IN  IF ~requireAdmin(key)
        THEN [code |-> 403, country |-> country, file |-> s, users |-> points, awarded |-> {}]
        ELSE IF idx = 0
        THEN [code |-> 404, country |-> country, file |-> s, users |-> points, awarded |-> {}]
        ELSE LET deal == s.deals[idx]
                 approved == Spread(deal,
                                 [views |-> toNumOrZero(deal, "views"),
                                  clicks |-> toNumOrZero(deal, "clicks"),
                                  status |-> "approved"])
                 final == IF AwardDue(deal)
                          THEN Spread(approved, [pointsAwarded |-> TRUE])
                          ELSE approved
             IN  [code |-> 200, country |-> country,
                  file |-> writeDeals(s, ObjInput([s EXCEPT !.deals[idx] = final])),
                  users |-> IF AwardDue(deal)
                            THEN addUserPoints(points, deal.createdByUserId[1], POINTS)
                            ELSE points,
                  awarded |-> IF AwardDue(deal) THEN {deal.id} ELSE {}]

\* POST /admin/deals/:id/reject
RejectResult(key, req, id) ==
    LET country == adminCountry(req)
        s == readDeals(storeCountry(country))
        kept == RemoveById(s.deals, id)
    IN  IF ~requireAdmin(key) THEN [code |-> 403, country |-> country, file |-> s]
        ELSE IF Len(kept) = Len(s.deals) THEN [code |-> 404, country |-> country, file |-> s]
        ELSE [code |-> 200, country |-> country,
              file |-> writeDeals(s, ObjInput([s EXCEPT !.deals = kept]))]


\* Number(deal.price): NULL stands for NaN (the field is absent)
NumberOf(d, f) == IF Has(d, f) THEN Some(d[f]) ELSE NULL

\* variant: an alert fires only when the price falls below its target
AlertDueBelow(a, dealId, newPrice) ==
    /\ a.triggeredAt = NULL
    /\ a.dealId = dealId
    /\ newPrice < a.targetPrice

\* the alerts a price change triggers: not yet triggered, of the updated
\* record's id, with newPrice <= targetPrice
AlertDue(a, dealId, newPrice) ==
    /\ a.triggeredAt = NULL
    /\ a.dealId = dealId
    /\ newPrice <= a.targetPrice

\* store.alerts after the price-drop scan; nothing is scanned unless both
\* prices are finite and differ
TriggerAlerts(alerts, dealId, oldPrice, newPrice, ts) ==
    IF oldPrice # NULL /\ newPrice # NULL /\ newPrice # oldPrice
    THEN [k \in DOMAIN alerts |->
            IF AlertDue(alerts[k], dealId, newPrice[1])
            THEN Spread(alerts[k], [triggeredAt |-> Some(ts), active |-> FALSE])
            ELSE alerts[k]]
    ELSE alerts

\* PUT /admin/deals/:id
UpdateResult(key, req, id, patch) ==
    LET country == adminCountry(req)
        s == readDeals(storeCountry(country))
        idx == findDealIndexById(s, id)
    IN  IF ~requireAdmin(key) THEN [code |-> 403, country |-> country, file |-> s]
        ELSE IF idx = 0 THEN [code |-> 404, country |-> country, file |-> s]
        ELSE LET existing == s.deals[idx]
                 patched == Spread(Spread(existing, patch), [country |-> country])
                 next == Spread(patched,
                             [views |-> IF Has(patched, "views") THEN patched.views
                                        ELSE toNumOrZero(existing, "views"),
                              clicks |-> IF Has(patched, "clicks") THEN patched.clicks
                                         ELSE toNumOrZero(existing, "clicks")])
                 alerts == TriggerAlerts(s.alerts, next.id, NumberOf(existing, "price"),
                                         NumberOf(next, "price"), now)
             IN  [code |-> 200, country |-> country,
                  file |-> writeDeals(s, ObjInput([s EXCEPT !.deals[idx] = next,
                                                            !.alerts = alerts]))]

\* variant: the delete flips the status and leaves expiresAt alone
DisableDealStatusOnly(deal, ts) ==
    Spread(deal, [status |-> "disabled"])

\* the record DELETE /admin/deals/:id leaves in place of the deal
DisableDeal(deal, ts) ==
    Spread(deal, [status |-> "disabled", expiresAt |-> Some(ts)])

\* DELETE /admin/deals/:id
DeleteResult(key, req, id) ==
    LET country == adminCountry(req)
        s == readDeals(storeCountry(country))
        idx == findDealIndexById(s, id)
    IN  IF ~requireAdmin(key) THEN [code |-> 403, country |-> country, file |-> s]
        ELSE IF idx = 0 THEN [code |-> 404, country |-> country, file |-> s]
        ELSE [code |-> 200, country |-> country,
              file |-> writeDeals(s, ObjInput([s EXCEPT !.deals[idx] =
                                                  DisableDeal(s.deals[idx], now)]))]

\* the admin router's country order: query, body, header
resolveCountryAdmin(req) ==
    IF req[1] # "" THEN normalizeCountry(req[1])
    ELSE IF req[3] # "" THEN normalizeCountry(req[3])
    ELSE IF req[2] # "" THEN normalizeCountry(req[2])
    ELSE "CA"

\* POST /admin/deals/bulk
BulkResult(key, req, incomingRaw) ==
    LET country == resolveCountryAdmin(req)
        s == readDeals(country)
        incoming == [i \in DOMAIN incomingRaw |->
                        Spread(incomingRaw[i], [country |-> country])]
        result == upsertDeals(s, incoming, nextId)
    IN  IF ~requireAdmin(key)
        THEN [code |-> 401, country |-> country, file |-> s, nid |-> nextId,
              addedCount |-> 0, updatedCount |-> 0]
        ELSE IF incomingRaw = <<>>
        THEN [code |-> 400, country |-> country, file |-> s, nid |-> nextId,
              addedCount |-> 0, updatedCount |-> 0]
        ELSE [code |-> 200, country |-> country, file |-> result.file, nid |-> result.nid,
              addedCount |-> result.addedCount, updatedCount |-> result.updatedCount]

\* ----------------------------------------------------------------- state
Init ==
    /\ store = [c \in Countries |-> EmptyStore]
    /\ points = [u \in Users |-> 0]
    /\ now = 0
    /\ nextId = 1
    /\ awardLog = [i \in DealIds |-> 0]
    /\ resetLog = [i \in DealIds |-> 0]
    /\ call = [op |-> "none"]
    /\ env = Unset
    /\ inflight = {}
    /\ acked = {}
    /\ legacyFiles = <<NULL, NULL, NULL>>
    /\ bootLog = <<>>

\* ids whose pointsAwarded flag goes from true to not-true between two files
FlagCleared(before, after) ==
    {i \in DealIds :
        /\ \E k \in DOMAIN before.deals :
              /\ before.deals[k].id = i
              /\ Has(before.deals[k], "pointsAwarded")
              /\ before.deals[k].pointsAwarded
        /\ \E k \in DOMAIN after.deals :
              /\ after.deals[k].id = i
              /\ ~(Has(after.deals[k], "pointsAwarded") /\ after.deals[k].pointsAwarded)}

RECURSIVE SumLog(_, _)
SumLog(log, S) ==
    IF S = {} THEN 0
    ELSE LET i == CHOOSE x \in S : TRUE IN log[i] + SumLog(log, S \ {i})

\* at most MaxResets clearings are followed in a run
LogResets(before, after) ==
    /\ SumLog(resetLog, DealIds) + Cardinality(FlagCleared(before, after)) <= MaxResets
    /\ resetLog' = [i \in DealIds |->
                       resetLog[i] + (IF i \in FlagCleared(before, after) THEN 1 ELSE 0)]

\* the handler persists r.file as the store of the country it resolved
Persist(r) == store' = [store EXCEPT ![r.country] = r.file]

RECURSIVE CountTotal(_)
CountTotal(deals) ==
    IF deals = <<>> THEN 0
    ELSE toNumOrZero(Head(deals), "clicks") + toNumOrZero(Head(deals), "views")
         + CountTotal(Tail(deals))

\* at most MaxCount clicks and views are followed in a country
CountersBounded(file) == CountTotal(file.deals) <= MaxCount

Tick ==
    /\ now < MaxTime
    /\ now' = now + 1
    /\ UNCHANGED <<store, points, nextId, awardLog, resetLog, call, env, inflight, acked, legacyFiles, bootLog>>

GetDeals(req) ==
    /\ GetDealsResult(req).code = 200
    /\ UNCHANGED vars

GetDeal(req, id) ==
    /\ GetDealResult(req, id).code \in {200, 404}
    /\ UNCHANGED vars

View(req, id) ==
    LET r == CountResult("views", req, id)
    IN  /\ CountersBounded(r.file)
        /\ Persist(r)
        /\ UNCHANGED <<points, now, nextId, awardLog, resetLog, call, env, inflight, acked, legacyFiles, bootLog>>

Click(req, id) ==
    LET r == CountResult("clicks", req, id)
    IN  /\ CountersBounded(r.file)
        /\ Persist(r)
        /\ UNCHANGED <<points, now, nextId, awardLog, resetLog, call, env, inflight, acked, legacyFiles, bootLog>>

Submit(req, key, body, user) ==
    LET r == SubmitResult(req, key, body, user)
    IN  /\ r.nid <= MaxId + 1
        /\ Persist(r)
        /\ nextId' = r.nid
        /\ UNCHANGED <<points, now, awardLog, resetLog, call, env, inflight, acked, legacyFiles, bootLog>>

Report(req, id, reason) ==
    LET r == ReportResult(req, id, reason)
    IN  /\ Len(r.file.reports) <= MaxReports
        /\ Persist(r)
        /\ UNCHANGED <<points, now, nextId, awardLog, resetLog, call, env, inflight, acked, legacyFiles, bootLog>>

AdminList(key, req) ==
    /\ AdminListResult(key, req).code \in {200, 403}
    /\ UNCHANGED vars

AdminPending(key, req) ==
    /\ AdminPendingResult(key, req).code \in {200, 403}
    /\ UNCHANGED vars

AdminCreate(key, bodyCountry, title) ==
    LET r == AdminCreateResult(key, bodyCountry, title)
    IN  /\ r.nid <= MaxId + 1
        /\ Persist(r)
        /\ nextId' = r.nid
        /\ UNCHANGED <<points, now, awardLog, resetLog, call, env, inflight, acked, legacyFiles, bootLog>>

Approve(key, req, id) ==
    LET r == ApproveResult(key, req, id)
    IN  /\ Persist(r)
        /\ points' = r.users
        /\ awardLog' = [i \in DealIds |-> awardLog[i] + (IF i \in r.awarded THEN 1 ELSE 0)]
        /\ UNCHANGED <<now, nextId, resetLog, call, env, inflight, acked, legacyFiles, bootLog>>

Reject(key, req, id) ==
    LET r == RejectResult(key, req, id)
    IN  /\ Persist(r)
        /\ UNCHANGED <<points, now, nextId, awardLog, resetLog, call, env, inflight, acked, legacyFiles, bootLog>>

Update(key, req, id, patch) ==
    LET r == UpdateResult(key, req, id, patch)
    IN  /\ LogResets(store[r.country], r.file)
        /\ Persist(r)
        /\ UNCHANGED <<points, now, nextId, awardLog, call, env, inflight, acked, legacyFiles, bootLog>>

Delete(key, req, id) ==
    LET r == DeleteResult(key, req, id)
    IN  /\ Persist(r)
        /\ UNCHANGED <<points, now, nextId, awardLog, resetLog, call, env, inflight, acked, legacyFiles, bootLog>>

Bulk(key, req, incomingRaw) ==
    LET r == BulkResult(key, req, incomingRaw)
    IN  /\ r.nid <= MaxId + 1
        /\ LogResets(store[r.country], r.file)
        /\ Persist(r)
        /\ nextId' = r.nid
        /\ UNCHANGED <<points, now, awardLog, call, env, inflight, acked, legacyFiles, bootLog>>

\* The API driven by the requests of a profile P: the request countries,
\* admin keys, submitting users, PUT bodies and bulk records clients send,
\* and the ids they click, view and report.  Every operation but the admin
\* update:
NextCore(P) ==
    \/ Tick
    \/ \E req \in P.reqs : GetDeals(req)
    \/ \E req \in P.reqs, id \in DealIds : GetDeal(req, id)
    \/ \E req \in P.reqs, id \in P.countIds : View(req, id)
    \/ \E req \in P.reqs, id \in P.countIds : Click(req, id)
    \/ \E req \in P.reqs, key \in P.keys, title \in {<<>>, T1},
          st \in {"", "approved"}, user \in P.users :
            Submit(req, key, [title |-> title, status |-> st], user)
    \/ \E req \in P.reqs, id \in P.reportIds, reason \in {"", "spam"} :
            Report(req, id, reason)
    \/ \E key \in P.keys, req \in P.reqs : AdminList(key, req)
    \/ \E key \in P.keys, req \in P.reqs : AdminPending(key, req)
    \/ \E key \in P.keys, req \in P.reqs, title \in {<<>>, T3} :
            AdminCreate(key, req[3], title)
    \/ \E key \in P.keys, req \in P.reqs, id \in DealIds : Approve(key, req, id)
    \/ \E key \in P.keys, req \in P.reqs, id \in DealIds : Reject(key, req, id)
    \/ \E key \in P.keys, req \in P.reqs, id \in DealIds : Delete(key, req, id)
    \/ \E key \in P.keys, req \in P.reqs, incoming \in SeqsUpTo(P.raws, MaxBatch) :
            Bulk(key, req, incoming)

NextApi(P) ==
    \/ NextCore(P)
    \/ \E key \in P.keys, req \in P.reqs, id \in DealIds, patch \in P.patches :
            Update(key, req, id, patch)

\* the deal lifecycle: anonymous submissions, moderation, expiry, ingestion
\* (ids start at 1: id 0 stands for an id no deal carries)
Main ==
    [reqs |-> {<<"", "", "">>},
     keys |-> {ADMIN_KEY, "wrong"},
     users |-> {NULL},
     patches |-> {[status |-> "approved", expiresAt |-> Some(MaxTime)]},
     raws |-> {[title |-> T2, expiresAt |-> NULL]},
     countIds |-> {0},
     reportIds |-> {1}]

Next == NextApi(Main)

Spec == Init /\ [][Next]_vars

\* the lifecycle without PUT /admin/deals/:id
NextNoUpdate == NextCore(Main)

SpecNoUpdate == Init /\ [][NextNoUpdate]_vars

\* clicks and views on a deal that is moderated and expires
Counting ==
    [reqs |-> {<<"", "", "">>},
     keys |-> {ADMIN_KEY},
     users |-> {NULL},
     patches |-> {[expiresAt |-> Some(MaxTime)]},
     raws |-> {[title |-> T2]},
     countIds |-> {1},
     reportIds |-> {0}]

NextCount == NextApi(Counting)

SpecCount == Init /\ [][NextCount]_vars

\* submissions by a signed-in user, and admin bodies that carry the
\* pointsAwarded field
Awarding ==
    [reqs |-> {<<"", "", "">>},
     keys |-> {ADMIN_KEY},
     users |-> {Some("u1")},
     patches |-> {[pointsAwarded |-> FALSE]},
     raws |-> {[title |-> T1, pointsAwarded |-> FALSE]},
     countIds |-> {0},
     reportIds |-> {0}]

NextPoints == NextApi(Awarding)

SpecPoints == Init /\ [][NextPoints]_vars

\* admin bodies and bulk records that carry an id field
IdPayloads ==
    [reqs |-> {<<"", "", "">>},
     keys |-> {ADMIN_KEY},
     users |-> {NULL},
     patches |-> {[id |-> 1]},
     raws |-> {[title |-> T3, id |-> 1]},
     countIds |-> {1},
     reportIds |-> {0}]

NextIds == NextApi(IdPayloads)

SpecIds == Init /\ [][NextIds]_vars

\* admin bodies and bulk records that carry a counter field
CounterPayloads ==
    [reqs |-> {<<"", "", "">>},
     keys |-> {ADMIN_KEY},
     users |-> {NULL},
     patches |-> {[clicks |-> 0]},
     raws |-> {[title |-> T2, views |-> 0]},
     countIds |-> {1},
     reportIds |-> {0}]

NextCounters == NextApi(CounterPayloads)

SpecCounters == Init /\ [][NextCounters]_vars


\* ------------------------------------------------- the store called directly
\* deals, reports and alerts that callers of writeDeals hand over
W1 == [id |-> MaxId + 1, title |-> T1, status |-> "approved", country |-> "CA"]
W2 == [id |-> MaxId + 2, title |-> T3, status |-> "pending", country |-> "US"]
R1 == [dealId |-> MaxId + 1, reason |-> "spam", status |-> "pending"]
A1 == [userId |-> "u1", dealId |-> MaxId + 1, active |-> TRUE]

\* the empty array and the one-element arrays over S
Singles(S) == {<<>>} \cup {<<x>> : x \in S}

WriteInputs ==
    {ArrInput(ds) : ds \in Singles({W1, W2})}
    \cup {[kind |-> "object", deals |-> d, reports |-> ra[1], alerts |-> ra[2]] :
            d \in {NULL, Some(<<>>), Some(<<W1>>)},
            ra \in {<<NULL, NULL>>, <<Some(<<R1>>), Some(<<A1>>)>>}}
    \cup {InvalidInput}

\* records that callers of upsertDeals hand over
StoreRaws == {[title |-> T2, price |-> 5], [url |-> U1, price |-> 5]}

\* the two call forms: (country, value) and (value)
CallForms(values) ==
    {<<StrArg("us"), InArg(v)>> : v \in values}
    \cup {<<InArg(v), Undefined>> : v \in values}
    \cup {<<StrArg("US"), Undefined>>}

CallWriteDeals(a, b) ==
    LET p == parseWriteArgs(a, b)
        r == WriteCall(a, b)
    IN  /\ store' = [store EXCEPT ![r.country] = r.file]
        /\ call' = [op |-> "writeDeals", country |-> r.country,
                    blocked |-> /\ p.input.kind # "invalid"
                                /\ Len(readDeals(r.country).deals) > 0
                                /\ Len(InputDeals(p.input)) = 0]
        /\ UNCHANGED <<points, now, nextId, awardLog, resetLog, env, inflight, acked, legacyFiles, bootLog>>

CallUpsertDeals(a, b) ==
    LET r == UpsertCall(a, b)
    IN  /\ r.nid <= MaxId + 1
        /\ store' = [store EXCEPT ![r.country] = r.file]
        /\ nextId' = r.nid
        /\ call' = [op |-> "upsertDeals", country |-> r.country, threw |-> r.threw,
                    addedCount |-> r.addedCount, updatedCount |-> r.updatedCount]
        /\ UNCHANGED <<points, now, awardLog, resetLog, env, inflight, acked, legacyFiles, bootLog>>

CallReadDeals(c) ==
    /\ call' = [op |-> "readDeals", country |-> normalizeCountry(c)]
    /\ UNCHANGED <<store, points, now, nextId, awardLog, resetLog, env, inflight, acked, legacyFiles, bootLog>>

CallResetDeals ==
    /\ call' = [op |-> "resetDeals", ok |-> resetDeals.ok]
    /\ UNCHANGED <<store, points, now, nextId, awardLog, resetLog, env, inflight, acked, legacyFiles, bootLog>>

NextStore ==
    \/ \E f \in CallForms(WriteInputs) : CallWriteDeals(f[1], f[2])
    \/ \E f \in CallForms({ArrInput(ds) : ds \in Singles(StoreRaws)}
                          \cup {InvalidInput}) :
            CallUpsertDeals(f[1], f[2])
    \/ \E c \in {"CA", "US", "us", ""} : CallReadDeals(c)
    \/ CallResetDeals

SpecStore == Init /\ [][NextStore]_vars

\* ------------------------------------------------------ getDealKey by itself
KeyRecords ==
    {[f \in fs |-> r[f]] :
        fs \in SUBSET {"sourceKey", "asin", "url", "title"},
        r \in [sourceKey : {"s1"}, asin : {"B1", "B2"},
               url : {U1, U2, U3, UBad}, title : {T1, T2}]}

InitKey ==
    /\ store = [c \in Countries |-> EmptyStore]
    /\ points = [u \in Users |-> 0]
    /\ now = 0
    /\ nextId = 1
    /\ awardLog = [i \in DealIds |-> 0]
    /\ resetLog = [i \in DealIds |-> 0]
    /\ \E a, b \in KeyRecords : call = [op |-> "records", a |-> a, b |-> b]
    /\ env = Unset
    /\ inflight = {}
    /\ acked = {}
    /\ legacyFiles = <<NULL, NULL, NULL>>
    /\ bootLog = <<>>

CallGetDealKey ==
    /\ call.op = "records"
    /\ call' = [op |-> "getDealKey", a |-> call.a, b |-> call.b,
                ka |-> getDealKey(call.a), kb |-> getDealKey(call.b)]
    /\ UNCHANGED <<store, points, now, nextId, awardLog, resetLog, env, inflight, acked, legacyFiles, bootLog>>

NextKey == CallGetDealKey

SpecKey == InitKey /\ [][NextKey]_vars

\* ---------------------------------------------------------------- claims
\* the deals of a file the specification says the public may see at time t
Listed(deal, t) ==
    /\ Has(deal, "status") /\ deal.status = "approved"
    /\ deal.status # "disabled"
    /\ (~Has(deal, "expiresAt") \/ deal.expiresAt = NULL \/ deal.expiresAt[1] > t)

C2_SubmitPending ==
    \A req \in Reqs, key \in AnyKeys, st \in Statuses \cup {""},
       user \in {NULL, Some("u1")} :
        LET r == SubmitResult(req, key, [title |-> T1, status |-> st], user)
        IN  /\ r.code = 201
            /\ r.deal[1].status = "pending"
            /\ \E k \in DOMAIN r.file.deals :
                  /\ r.file.deals[k].id = r.deal[1].id
                  /\ r.file.deals[k].status = "pending"
            /\ r.deal[1].id \notin ListIds(r.file, now)

\* a submission has been stored and is pending
C2_Witness ==
    /\ nextId > 1
    /\ \E k \in DOMAIN store["CA"].deals :
          /\ store["CA"].deals[k].title = T1
          /\ store["CA"].deals[k].status = "pending"

\* C4: when POST /admin/deals/:id/reject answers success, the record is gone
\* from the country's store, also when it was the only deal there.
C4_RejectRemoves ==
    \A req \in Reqs, id \in DealIds :
        LET r == RejectResult(ADMIN_KEY, req, id)
        IN  r.code = 200 => id \notin IdsOf(r.file.deals)

\* C7: DELETE /admin/deals/:id sets status disabled and expiresAt to now,
\* keeps the record in the store, and the deal is absent from the public
\* listing from then on and present in the admin listing.
C7_SoftDelete ==
    /\ \A req \in Reqs, id \in DealIds :
          LET r == DeleteResult(ADMIN_KEY, req, id)
              before == store[r.country]
              idx == findDealIndexById(before, id)
          IN  r.code = 200 =>
                /\ Len(r.file.deals) = Len(before.deals)
                /\ r.file.deals[idx].id = id
                /\ r.file.deals[idx].status = "disabled"
                /\ r.file.deals[idx].expiresAt = Some(now)
                /\ \A j \in DOMAIN before.deals :
                      j # idx => r.file.deals[j] = before.deals[j]
                /\ \A t \in now..(MaxTime + 1) : id \notin ListIds(r.file, t)
                /\ id \in AdminIds(r.file)
    /\ \A c \in Countries : \A k \in DOMAIN store[c].deals :
          (Has(store[c].deals[k], "status") /\ store[c].deals[k].status = "disabled") =>
                /\ store[c].deals[k].id \notin ListIds(store[c], now)
                /\ store[c].deals[k].id \in AdminIds(store[c])

\* a deal that was listed has been deleted: it is stored, disabled and
\* stamped, next to a deal that is still listed
C7_Witness ==
    \E k, m \in DOMAIN store["CA"].deals :
        /\ store["CA"].deals[k].status = "disabled"
        /\ store["CA"].deals[k].expiresAt # NULL
        /\ store["CA"].deals[k].id \notin GetDealsResult(<<"", "", "">>).ids
        /\ store["CA"].deals[k].id \in AdminListResult(ADMIN_KEY, <<"", "", "">>).ids
        /\ store["CA"].deals[m].id \in GetDealsResult(<<"", "", "">>).ids

\* C3: writeDeals never replaces a persisted store holding N>0 deals with an
\* input holding 0 deals: the call is a no-op and re-reading the country
\* returns the same deals, reports and alerts as before.
C3_EmptyWriteNoOp ==
    /\ \A f \in CallForms(WriteInputs) :
          LET p == parseWriteArgs(f[1], f[2])
              r == WriteCall(f[1], f[2])
              before == readDeals(r.country)
          IN  (Len(before.deals) > 0 /\ Len(InputDeals(p.input)) = 0) =>
                /\ r.file.deals = before.deals
                /\ r.file.reports = before.reports
                /\ r.file.alerts = before.alerts
    /\ (call.op = "writeDeals" /\ call.blocked) =>
          Len(readDeals(call.country).deals) > 0

\* an empty write has just been refused on a store with deals, reports and
\* alerts
C3_Witness ==
    /\ call.op = "writeDeals"
    /\ call.blocked
    /\ Len(readDeals(call.country).deals) > 0
    /\ readDeals(call.country).reports # <<>>
    /\ readDeals(call.country).alerts # <<>>

\* C5: upserting the same incoming record twice into a store that did not
\* contain its key yields addedCount=1 then updatedCount=1 (addedCount=0),
\* the store holds exactly one record for it afterwards, and the record's
\* id is the same after the second call as after the first.
C5_UpsertTwice ==
    \A c \in Countries, raw \in StoreRaws :
        LET cur == readDeals(c)
            r1 == upsertDeals(cur, <<raw>>, nextId)
            r2 == upsertDeals(r1.file, <<raw>>, r1.nid)
        IN  (\A i \in DOMAIN cur.deals : getDealKey(cur.deals[i]) # getDealKey(raw)) =>
                /\ r1.addedCount = 1 /\ r1.updatedCount = 0
                /\ r2.addedCount = 0 /\ r2.updatedCount = 1
                /\ Len(r2.file.deals) = Len(cur.deals) + 1
                /\ IdsOf(r2.file.deals) = IdsOf(r1.file.deals)

\* C8: POST /deals/:id/click and /view add exactly 1 to their counter when
\* the deal is approved, not disabled and not expired; otherwise they answer
\* "Deal not active" and leave the store unchanged.
C8_CountOnlyActive ==
    \A req \in Reqs, id \in DealIds, field \in {"views", "clicks"} :
        LET r == CountResult(field, req, id)
            s == readDeals(r.country)
            idx == findDealIndexById(s, id)
        IN  idx # 0 =>
              IF Listed(s.deals[idx], now)
              THEN /\ r.code = 200
                   /\ Len(r.file.deals) = Len(s.deals)
                   /\ r.file.deals[idx][field] =
                        (IF Has(s.deals[idx], field) THEN s.deals[idx][field] ELSE 0) + 1
                   /\ \A g \in DOMAIN s.deals[idx] :
                        g # field => r.file.deals[idx][g] = s.deals[idx][g]
                   /\ \A j \in DOMAIN s.deals : j # idx => r.file.deals[j] = s.deals[j]
              ELSE /\ r.code = 400
                   /\ r.error = "Deal not active"
                   /\ r.file = s

\* a deal that was viewed or clicked while active is no longer active, and
\* a further view is refused
C8_Witness ==
    \E k \in DOMAIN store["CA"].deals :
        /\ toNumOrZero(store["CA"].deals[k], "views")
              + toNumOrZero(store["CA"].deals[k], "clicks") >= 1
        /\ ~Listed(store["CA"].deals[k], now)
        /\ CountResult("views", <<"", "", "">>, store["CA"].deals[k].id).code = 400

\* C9: once a deal is disabled, no step other than an admin update makes it
\* appear in the public listing again.
C9_DisabledTerminal ==
    [][\A c \in Countries : \A k \in DOMAIN store[c].deals :
          (Has(store[c].deals[k], "status") /\ store[c].deals[k].status = "disabled") =>
              store[c].deals[k].id \notin ListIds(store'[c], now')]_vars

DocumentedKind(deal) ==
    IF Has(deal, "sourceKey") /\ deal.sourceKey # "" THEN "source"
    ELSE IF Has(deal, "asin") /\ deal.asin # "" THEN "asin"
    ELSE IF Has(deal, "url") /\ normalizeUrl(deal.url) # NULL THEN "url"
    ELSE IF Has(deal, "title") /\ deal.title # <<>> THEN "title"
    ELSE "hash"

\* C10: getDealKey follows the priority sourceKey, asin, url, title, hash;
\* two records without sourceKey that differ in asin or in URL but share a
\* title get different keys.
C10_KeyPriority ==
    call.op = "getDealKey" =>
        /\ call.ka.kind = DocumentedKind(call.a)
        /\ (/\ ~Has(call.a, "sourceKey") /\ ~Has(call.b, "sourceKey")
            /\ Has(call.a, "title") /\ Has(call.b, "title")
            /\ call.a.title = call.b.title
            /\ \/ (Has(call.a, "asin") /\ Has(call.b, "asin") /\ call.a.asin # call.b.asin)
               \/ (/\ ~Has(call.a, "asin") /\ ~Has(call.b, "asin")
                   /\ Has(call.a, "url") /\ Has(call.b, "url")
                   /\ normalizeUrl(call.a.url) # NULL /\ normalizeUrl(call.b.url) # NULL
                   /\ normalizeUrl(call.a.url) # normalizeUrl(call.b.url)))
           => call.ka # call.kb

\* C11: in every reachable state the records of a country's deals array
\* have pairwise distinct ids, also when bulk records or update bodies
\* carry an id field.
C11_DistinctIds ==
    \A c \in Countries : \A i, j \in DOMAIN store[c].deals :
        i # j => store[c].deals[i].id # store[c].deals[j].id

\* C12: no operation changes the id of a stored record: the record an
\* update, approve, delete, click or view rewrites in place keeps its id,
\* and a bulk upsert merge keeps the id of the record it merges into.
C12_IdImmutable ==
    /\ \A req \in IdPayloads.reqs, id \in DealIds :
          LET s == readDeals(adminCountry(req))
              idx == findDealIndexById(s, id)
          IN  idx # 0 =>
                /\ \A patch \in IdPayloads.patches :
                      UpdateResult(ADMIN_KEY, req, id, patch).file.deals[idx].id = id
                /\ ApproveResult(ADMIN_KEY, req, id).file.deals[idx].id = id
                /\ DeleteResult(ADMIN_KEY, req, id).file.deals[idx].id = id
                /\ CountResult("clicks", req, id).file.deals[idx].id = id
                /\ CountResult("views", req, id).file.deals[idx].id = id
    /\ \A c \in Countries, raw \in IdPayloads.raws :
          \A k \in DOMAIN store[c].deals :
              MergeDeal(store[c].deals[k], raw).id = store[c].deals[k].id

\* C13: the clicks and views of a stored deal never become smaller than a
\* value they held earlier.
C13_CountersMonotone ==
    [][\A c \in Countries : \A k \in DOMAIN store[c].deals :
          \A m \in DOMAIN store'[c].deals :
              store'[c].deals[m].id = store[c].deals[k].id =>
                  /\ toNumOrZero(store'[c].deals[m], "clicks")
                        >= toNumOrZero(store[c].deals[k], "clicks")
                  /\ toNumOrZero(store'[c].deals[m], "views")
                        >= toNumOrZero(store[c].deals[k], "views")]_vars

\* requests whose query, header and body name different countries
Disagreeing ==
    [reqs |-> {<<"US", "", "CA">>, <<"", "CA", "US">>, <<"", "US", "">>},
     keys |-> {ADMIN_KEY},
     users |-> {NULL},
     patches |-> {[status |-> "approved"]},
     raws |-> {[title |-> T2]},
     countIds |-> {1},
     reportIds |-> {0}]

NextCountry == NextApi(Disagreeing)

SpecCountry == Init /\ [][NextCountry]_vars

\* the documented order: query, header, body, then CA
DocumentedCountry(req) ==
    IF req[1] # "" THEN normalizeCountry(req[1])
    ELSE IF req[2] # "" THEN normalizeCountry(req[2])
    ELSE IF req[3] # "" THEN normalizeCountry(req[3])
    ELSE "CA"

\* C14: every endpoint operates on the country chosen by the order query
\* parameter, x-country header, body field, default CA.
C14_CountryPrecedence ==
    \A req \in Disagreeing.reqs :
        /\ SubmitResult(req, ADMIN_KEY, [title |-> T1, status |-> ""], NULL).country
              = DocumentedCountry(req)
        /\ \A id \in DealIds :
              /\ CountResult("clicks", req, id).country = DocumentedCountry(req)
              /\ ApproveResult(ADMIN_KEY, req, id).country = DocumentedCountry(req)
              /\ DeleteResult(ADMIN_KEY, req, id).country = DocumentedCountry(req)
        /\ AdminCreateResult(ADMIN_KEY, req[3], T3).country = DocumentedCountry(req)
        /\ BulkResult(ADMIN_KEY, req, <<[title |-> T2]>>).country = DocumentedCountry(req)

\* ---------------------------------------------------- routes/redirect.js
Envs == [EnvNames -> {NULL, Some("aff")}]

UpperAlnum ==
    {"A", "B", "C", "D", "E", "F", "G", "H", "I", "J", "K", "L", "M",
     "N", "O", "P", "Q", "R", "S", "T", "U", "V", "W", "X", "Y", "Z",
     "0", "1", "2", "3", "4", "5", "6", "7", "8", "9"}
Digits == {"0", "1", "2", "3", "4", "5", "6", "7", "8", "9"}

\* /^B0[A-Z0-9]{8}$/ on the characters of the id
isAmazonASIN(id) ==
    /\ Len(id) = 2 + 8
    /\ id[1] = "B" /\ id[2] = "0"
    /\ \A i \in DOMAIN id : i > 2 => id[i] \in UpperAlnum

\* /^[0-9]{9,15}$/
isEbayItemId(id) ==
    /\ Len(id) >= 9 /\ Len(id) <= 15
    /\ \A i \in DOMAIN id : id[i] \in Digits

\* the characters of an id as the string a template literal splices in
RECURSIVE Join(_)
Join(chars) == IF chars = <<>> THEN "" ELSE Head(chars) \o Join(Tail(chars))

\* `${value}`: an undefined value is spliced in as the text "undefined"
Template(v) == IF v = NULL THEN "undefined" ELSE v[1]

\* toUpperCase on the query values the requests carry
toUpperCase(str) ==
    IF str = "us" THEN "US" ELSE IF str = "ca" THEN "CA" ELSE str

\* String(req.query.country || "CA").toUpperCase()
queryCountry(q) == IF q = "" THEN "CA" ELSE toUpperCase(q)

\* String({ country }): what normalizeCountry makes of the options object
\* readDeals is called with
OptionsString == "[object Object]"
OptionsArg(country) == [t |-> "options", country |-> country]

\* incrementDealClicks(d => d.sourceKey === key, country): the stores it
\* leaves behind
incrementDealClicks(key, country) ==
    LET s == readDeals(OptionsString)
        hits == {i \in DOMAIN s.deals :
                    Has(s.deals[i], "sourceKey") /\ s.deals[i].sourceKey = key}
    IN  IF hits = {} THEN store
        ELSE LET idx == CHOOSE i \in hits : \A j \in hits : i <= j
                 next == [s EXCEPT !.deals[idx] =
                            Spread(s.deals[idx],
                                   [clicks |-> toNumOrZero(s.deals[idx], "clicks") + 1])]
                 w == WriteCall(InArg(ObjInput(next)), OptionsArg(country))
             IN  [store EXCEPT ![w.country] = w.file]

\* GET /go/:source/:itemId
GoResult(source, itemId, q) ==
    LET country == queryCountry(q)
    IN  IF source = "amazon" /\ isAmazonASIN(itemId)
        THEN [code |-> 302, country |-> country,
              stores |-> incrementDealClicks("amazon:" \o Join(itemId), country),
              url |-> [host |-> IF country = "US" THEN "www.amazon.com"
                                ELSE "www.amazon.ca",
                       path |-> "/dp/" \o Join(itemId),
                       query |-> [tag |-> Template(IF country = "US"
                                                   THEN env.AMAZON_TAG_US
                                                   ELSE env.AMAZON_TAG_CA)]]]
        ELSE IF source = "ebay" /\ isEbayItemId(itemId)
        THEN [code |-> 302, country |-> country,
              stores |-> incrementDealClicks("ebay:" \o Join(itemId), country),
              url |-> [host |-> IF country = "US" THEN "www.ebay.com"
                                ELSE "www.ebay.ca",
                       path |-> "/itm/" \o Join(itemId),
                       query |-> [mkevt |-> "1", mkcid |-> "1",
                                  mkrid |-> IF country = "US" THEN "711-53200-19255-0"
                                            ELSE "706-53473-19255-0",
                                  campid |-> Template(env.EBAY_CAMPAIGN_ID),
                                  customid |-> Template(env.EBAY_CUSTOM_ID)]]]
        ELSE [code |-> 400, country |-> country, stores |-> store,
              error |-> "Invalid redirect request"]

Go(source, itemId, q) ==
    LET r == GoResult(source, itemId, q)
    IN  /\ \A c \in Countries : CountersBounded(r.stores[c])
        /\ store' = r.stores
        /\ UNCHANGED <<points, now, nextId, awardLog, resetLog, call, env, inflight, acked, legacyFiles, bootLog>>

\* the redirect proxy over stores filled by bulk ingestion, under every
\* affiliate configuration
ASIN1 == <<"B", "0", "A", "1", "B", "2", "C", "3", "D", "4">>
EBAY1 == <<"1", "2", "3", "4", "5", "6", "7", "8", "9">>
BadId == <<"b", "0">>
ItemIds == {ASIN1, EBAY1, BadId}
Sources == {"amazon", "ebay", "other"}
QueryCountries == {"", "US", "us"}

Redirecting ==
    [reqs |-> {<<"", "", "">>, <<"US", "", "">>},
     keys |-> {ADMIN_KEY},
     raws |-> {[title |-> T2, sourceKey |-> "amazon:" \o Join(ASIN1)],
               [title |-> T3, sourceKey |-> "ebay:" \o Join(EBAY1)]}]

InitRedirect ==
    /\ store = [c \in Countries |-> EmptyStore]
    /\ points = [u \in Users |-> 0]
    /\ now = 0
    /\ nextId = 1
    /\ awardLog = [i \in DealIds |-> 0]
    /\ resetLog = [i \in DealIds |-> 0]
    /\ call = [op |-> "none"]
    /\ env \in Envs
    /\ inflight = {}
    /\ acked = {}
    /\ legacyFiles = <<NULL, NULL, NULL>>
    /\ bootLog = <<>>

NextRedirect ==
    \/ \E key \in Redirecting.keys, req \in Redirecting.reqs,
          incoming \in SeqsUpTo(Redirecting.raws, MaxBatch) :
            Bulk(key, req, incoming)
    \/ \E source \in Sources, itemId \in ItemIds, q \in QueryCountries :
            Go(source, itemId, q)

SpecRedirect == InitRedirect /\ [][NextRedirect]_vars

\* the configuration values a redirect for the source and country needs
Required(source, country) ==
    IF source = "amazon"
    THEN {IF country = "US" THEN "AMAZON_TAG_US" ELSE "AMAZON_TAG_CA"}
    ELSE {"EBAY_CAMPAIGN_ID", "EBAY_CUSTOM_ID"}

\* C15: when an affiliate configuration value the redirect needs is absent,
\* GET /go/:source/:itemId answers with an error and issues no redirect.
C15_FailsClosed ==
    \A source \in {"amazon", "ebay"}, itemId \in ItemIds, q \in QueryCountries :
        (\E n \in Required(source, queryCountry(q)) : env[n] = NULL)
            => GoResult(source, itemId, q).code # 302

\* C16: a successful redirect for country C adds exactly 1 to the clicks of
\* the deal with sourceKey source:itemId in C's store; a request for US
\* leaves the CA store as it is.
C16_ClicksInCountry ==
    \A source \in {"amazon", "ebay"}, itemId \in ItemIds, q \in QueryCountries :
        LET r == GoResult(source, itemId, q)
            c == queryCountry(q)
            hits == {i \in DOMAIN store[c].deals :
                        /\ Has(store[c].deals[i], "sourceKey")
                        /\ store[c].deals[i].sourceKey = source \o ":" \o Join(itemId)}
        IN  (r.code = 302 /\ hits # {}) =>
                /\ \E i \in hits :
                      /\ i \in DOMAIN r.stores[c].deals
                      /\ toNumOrZero(r.stores[c].deals[i], "clicks")
                            = toNumOrZero(store[c].deals[i], "clicks") + 1
                /\ c = "US" => r.stores["CA"] = store["CA"]

\* ------------------------------------------------- services/urlPolicy.js
\* A submitted link is absent (not a string, or blank), a text that is no
\* URL, or a URL given by its parts as they are written: scheme, userinfo,
\* host, port and path, with the length of the trimmed text.  A host is a
\* name (its labels, lower-case; unicode when the first label is spelled
\* with non-ASCII characters), an IPv4 literal or a bracketed IPv6 literal.
\* A path is a sequence of characters.
MAX_URL_LENGTH == 2048

Name(labels) == [kind |-> "name", labels |-> labels, unicode |-> FALSE]
Idn(labels) == [kind |-> "name", labels |-> labels, unicode |-> TRUE]
V4(a, b, c, d) == [kind |-> "ipv4", octets |-> <<a, b, c, d>>]
V6(text) == [kind |-> "ipv6", text |-> text]

RETAILER_ALLOWLIST ==
    [Amazon |-> {<<"amazon", "ca">>, <<"www", "amazon", "ca">>, <<"a", "co">>,
                 <<"amzn", "to">>},
     BestBuy |-> {<<"bestbuy", "ca">>, <<"www", "bestbuy", "ca">>},
     Walmart |-> {<<"walmart", "ca">>, <<"www", "walmart", "ca">>},
     CanadianTire |-> {<<"canadiantire", "ca">>, <<"www", "canadiantire", "ca">>},
     Costco |-> {<<"costco", "ca">>, <<"www", "costco", "ca">>},
     Staples |-> {<<"staples", "ca">>, <<"www", "staples", "ca">>},
     Newegg |-> {<<"newegg", "ca">>, <<"www", "newegg", "ca">>}]

GLOBAL_SHORTENER_HOSTS ==
    {"bit.ly", "t.co", "tinyurl.com", "goo.gl", "ow.ly", "buff.ly", "is.gd",
     "cutt.ly", "rebrand.ly", "shorturl.at"}

BLOCKED_EXTENSIONS ==
    {<<".", "e", "x", "e">>, <<".", "m", "s", "i">>, <<".", "b", "a", "t">>,
     <<".", "c", "m", "d">>, <<".", "s", "c", "r">>, <<".", "p", "s", "1">>,
     <<".", "j", "a", "r">>, <<".", "a", "p", "k">>, <<".", "d", "m", "g">>,
     <<".", "p", "k", "g">>, <<".", "i", "s", "o">>}

UpperLetters ==
    <<"A", "B", "C", "D", "E", "F", "G", "H", "I", "J", "K", "L", "M",
      "N", "O", "P", "Q", "R", "S", "T", "U", "V", "W", "X", "Y", "Z">>
LowerLetters ==
    <<"a", "b", "c", "d", "e", "f", "g", "h", "i", "j", "k", "l", "m",
      "n", "o", "p", "q", "r", "s", "t", "u", "v", "w", "x", "y", "z">>

\* toLowerCase, character by character
toLowerChar(ch) ==
    IF \E i \in DOMAIN UpperLetters : UpperLetters[i] = ch
    THEN LowerLetters[CHOOSE i \in DOMAIN UpperLetters : UpperLetters[i] = ch]
    ELSE ch

toLowerChars(chars) == [i \in DOMAIN chars |-> toLowerChar(chars[i])]

endsWith(chars, suffix) ==
    /\ Len(chars) >= Len(suffix)
    /\ SubSeq(chars, Len(chars) - Len(suffix) + 1, Len(chars)) = suffix

\* trim on the retailer values the requests carry
trim(str) == IF str = " BestBuy " THEN "BestBuy" ELSE str

\* labels joined by dots
RECURSIVE JoinDots(_)
JoinDots(labels) ==
    IF Len(labels) = 1 THEN labels[1]
    ELSE labels[1] \o "." \o JoinDots(Tail(labels))

\* the host as URL.hostname serializes it: dotted labels, dotted decimal
\* octets, an IPv6 address in brackets
Hostname(h) ==
    IF h.kind = "name" THEN JoinDots(h.labels)
    ELSE IF h.kind = "ipv4"
    THEN JoinDots([i \in DOMAIN h.octets |-> ToString(h.octets[i])])
    ELSE "[" \o h.text \o "]"

\* the URL parser's host: a non-ASCII label comes out in its xn-- form
ParseHost(h) ==
    IF h.kind = "name" /\ h.unicode
    THEN Name([i \in DOMAIN h.labels |->
                  IF i = 1 THEN "xn--" \o h.labels[i] ELSE h.labels[i]])
    ELSE h

DefaultPort(scheme) == IF scheme = "https" THEN 443 ELSE 80

\* new URL(raw): throws on a text that is no URL and on an IPv4 literal
\* with an octet above 255; the scheme's default port is dropped
ParseURL(raw) ==
    IF raw.kind # "url" THEN [ok |-> FALSE]
    ELSE IF raw.host.kind = "ipv4" /\ \E i \in DOMAIN raw.host.octets :
                                          raw.host.octets[i] > 255
    THEN [ok |-> FALSE]
    ELSE [ok |-> TRUE,
          u |-> [protocol |-> raw.scheme \o ":",
                 username |-> raw.username,
                 password |-> raw.password,
                 hostname |-> ParseHost(raw.host),
                 port |-> IF raw.port # NULL /\ raw.port[1] = DefaultPort(raw.scheme)
                          THEN NULL ELSE raw.port,
                 pathname |-> raw.path]]

\* every character of the parsed host has a code of at most 127
isAscii(h) == h.kind = "name" => ~h.unicode

isIpv4Literal(h) == h.kind = "ipv4"

isPrivateIpv4(h) ==
    /\ isIpv4Literal(h)
    /\ LET a == h.octets[1]
           b == h.octets[2]
       IN  \/ a = 10
           \/ a = 127
           \/ a = 0
           \/ a = 169 /\ b = 254
           \/ a = 192 /\ b = 168
           \/ a = 172 /\ b >= 16 /\ b <= 31

\* variant: only dotted-decimal hosts count as IP literals
isIpv4Only(h) == h.kind = "ipv4"

\* hostname.includes(":") holds of the bracketed IPv6 form only
isIpLike(h) == h.kind = "ipv6" \/ isIpv4Literal(h)

\* h === d || h.endsWith("." + d)
hostMatchesAllowed(h, d) == h.kind = "name" /\ endsWith(h.labels, d)

blockedExtension(u) ==
    LET path == toLowerChars(u.pathname)
        found == {ext \in BLOCKED_EXTENSIONS : endsWith(path, ext)}
    IN  IF found = {} THEN NULL ELSE Some(CHOOSE ext \in found : TRUE)

isAmazonHost(h) ==
    Hostname(h) \in {"amazon.ca", "www.amazon.ca", "amazon.com", "www.amazon.com"}

LinkFail(reason) == [ok |-> FALSE, reason |-> reason]
LinkOk(u) == [ok |-> TRUE, normalizedUrl |-> u, host |-> Hostname(u.hostname)]

\* the checks that follow a successful parse
validateParsed(u, retailer) ==
    LET host == u.hostname
        ext == blockedExtension(u)
        r == trim(retailer)
    IN  IF u.protocol # "https:"
        THEN LinkFail("Only HTTPS links are allowed.")
        ELSE IF u.username # "" \/ u.password # ""
        THEN LinkFail("URL cannot contain credentials.")
        ELSE IF ~isAscii(host)
        THEN LinkFail("Non-ASCII domains are not allowed.")
        ELSE IF Hostname(host) = "localhost"
                \/ (host.kind = "name" /\ Len(host.labels) > 1
                    /\ host.labels[Len(host.labels)] = "local")
        THEN LinkFail("Localhost/internal links are not allowed.")
        ELSE IF isIpLike(host)
        THEN IF isPrivateIpv4(host) \/ Hostname(host) = "::1"
             THEN LinkFail("Private-network IP links are not allowed.")
             ELSE LinkFail("IP address links are not allowed.")
        ELSE IF u.port # NULL
        THEN LinkFail("Links with custom ports are not allowed.")
        ELSE IF ext # NULL
        THEN LinkFail("Links ending with " \o Join(ext[1]) \o " are not allowed.")
        ELSE IF r = "Amazon" /\ isAmazonHost(host)
        THEN LinkOk(u)
        ELSE IF r \in DOMAIN RETAILER_ALLOWLIST
        THEN IF \E d \in RETAILER_ALLOWLIST[r] : hostMatchesAllowed(host, d)
             THEN LinkOk(u)
             ELSE LinkFail("Link domain does not match allowed domains for retailer '"
                           \o r \o "'.")
        ELSE IF Hostname(host) \in GLOBAL_SHORTENER_HOSTS
        THEN LinkFail("Shortened links are not allowed for 'Other'.")
        ELSE LinkOk(u)

validateDealLink(url, retailer) ==
    IF url.kind = "absent" THEN LinkFail("URL is required.")
    ELSE IF url.len > MAX_URL_LENGTH THEN LinkFail("URL is too long.")
    ELSE IF ~ParseURL(url).ok THEN LinkFail("Invalid URL format.")
    ELSE validateParsed(ParseURL(url).u, retailer)

\* links and retailers the validator is called with
LinkHosts ==
    {Name(<<"amazon", "ca">>), Name(<<"www", "amazon", "com">>),
     Name(<<"smile", "amazon", "ca">>), Name(<<"a", "co">>), Name(<<"bit", "ly">>),
     Name(<<"evil", "exe">>), Name(<<"localhost">>), Name(<<"printer", "local">>),
     Name(<<"notbestbuy", "ca">>), Name(<<"www", "bestbuy", "ca">>),
     Idn(<<"evil", "com">>),
     V4(192, 168, 1, 1), V4(8, 8, 8, 8), V4(172, 32, 0, 1), V4(10, 0, 0, 1),
     V4(256, 1, 1, 1), V6("::1"), V6("2001:db8::1")}

LinkPaths ==
    {<<"/">>, <<"/", "d", "p">>, <<"/", "f", ".", "e", "x", "e">>,
     <<"/", "f", ".", "E", "X", "E">>}

LinkLengths == {20, MAX_URL_LENGTH + 1}

LinkUrls ==
    {[kind |-> "absent"]}
    \cup [kind : {"text"}, len : LinkLengths]
    \cup [kind : {"url"}, len : LinkLengths, scheme : {"https", "http"},
          username : {"", "user"}, password : {""}, host : LinkHosts,
          port : {NULL, Some(443), Some(8443)}, path : LinkPaths]

Retailers == {"Amazon", "BestBuy", " BestBuy ", "Other", ""}

InitLink ==
    /\ store = [c \in Countries |-> EmptyStore]
    /\ points = [u \in Users |-> 0]
    /\ now = 0
    /\ nextId = 1
    /\ awardLog = [i \in DealIds |-> 0]
    /\ resetLog = [i \in DealIds |-> 0]
    /\ \E url \in LinkUrls, retailer \in Retailers :
          call = [op |-> "link", url |-> url, retailer |-> retailer]
    /\ env = Unset
    /\ inflight = {}
    /\ acked = {}
    /\ legacyFiles = <<NULL, NULL, NULL>>
    /\ bootLog = <<>>

CallValidateDealLink ==
    /\ call.op = "link"
    /\ call' = [op |-> "validateDealLink", url |-> call.url, retailer |-> call.retailer,
                result |-> validateDealLink(call.url, call.retailer)]
    /\ UNCHANGED <<store, points, now, nextId, awardLog, resetLog, env, inflight, acked, legacyFiles, bootLog>>

NextLink == CallValidateDealLink

SpecLink == InitLink /\ [][NextLink]_vars

\* the documented check a failure reason belongs to
StageOf(reason) ==
    IF reason = "URL is required." THEN "required"
    ELSE IF reason = "URL is too long." THEN "length"
    ELSE IF reason = "Invalid URL format." THEN "parse"
    ELSE IF reason = "Only HTTPS links are allowed." THEN "https"
    ELSE IF reason = "URL cannot contain credentials." THEN "credentials"
    ELSE IF reason = "Non-ASCII domains are not allowed." THEN "ascii"
    ELSE IF reason = "Localhost/internal links are not allowed." THEN "localhost"
    ELSE IF reason \in {"Private-network IP links are not allowed.",
                        "IP address links are not allowed."} THEN "ip"
    ELSE IF reason = "Links with custom ports are not allowed." THEN "port"
    ELSE IF \E ext \in BLOCKED_EXTENSIONS :
                reason = "Links ending with " \o Join(ext) \o " are not allowed."
    THEN "extension"
    ELSE "retailer"

WrittenLocal(url) ==
    /\ url.host.kind = "name"
    /\ \/ url.host.labels = <<"localhost">>
       \/ (Len(url.host.labels) > 1 /\ url.host.labels[Len(url.host.labels)] = "local")

WrittenBlockedPath(url) ==
    \E ext \in BLOCKED_EXTENSIONS : endsWith(toLowerChars(url.path), ext)

\* the earliest documented check the link, as written, violates
FirstViolated(url) ==
    IF url.kind = "absent" THEN "required"
    ELSE IF url.len > MAX_URL_LENGTH THEN "length"
    ELSE IF ~ParseURL(url).ok THEN "parse"
    ELSE IF url.scheme # "https" THEN "https"
    ELSE IF url.username # "" \/ url.password # "" THEN "credentials"
    ELSE IF url.host.kind = "name" /\ url.host.unicode THEN "ascii"
    ELSE IF WrittenLocal(url) THEN "localhost"
    ELSE IF url.host.kind \in {"ipv4", "ipv6"} THEN "ip"
    ELSE IF url.port # NULL THEN "port"
    ELSE IF WrittenBlockedPath(url) THEN "extension"
    ELSE "none"

\* the earliest check that fails on the parts the URL parser yields: the
\* protocol, the userinfo, the serialized host, the port left after the
\* default port is dropped, the path
FirstFailing(url) ==
    IF url.kind = "absent" THEN "required"
    ELSE IF url.len > MAX_URL_LENGTH THEN "length"
    ELSE IF ~ParseURL(url).ok THEN "parse"
    ELSE IF url.scheme # "https" THEN "https"
    ELSE IF url.username # "" \/ url.password # "" THEN "credentials"
    ELSE IF WrittenLocal(url) THEN "localhost"
    ELSE IF url.host.kind \in {"ipv4", "ipv6"} THEN "ip"
    ELSE IF url.port # NULL /\ url.port # Some(DefaultPort(url.scheme)) THEN "port"
    ELSE IF WrittenBlockedPath(url) THEN "extension"
    ELSE "none"

C18_AllowlistExact ==
    (call.op = "validateDealLink" /\ FirstViolated(call.url) = "none") =>
        IF trim(call.retailer) \in DOMAIN RETAILER_ALLOWLIST
        THEN call.result.ok <=>
                \E d \in RETAILER_ALLOWLIST[trim(call.retailer)] :
                    endsWith(call.url.host.labels, d)
        ELSE call.result.ok <=> Hostname(call.url.host) \notin GLOBAL_SHORTENER_HOSTS

\* C19: a link that is not https, embeds credentials, names localhost or a
\* .local host, names an IP literal, has an explicit port or ends in a
\* blocked extension is never accepted; a private IPv4 host or ::1 gets a
\* reason other than the one for public IP literals.
C19_NeverAccepted ==
    (call.op = "validateDealLink" /\ call.url.kind = "url") =>
        /\ (\/ call.url.scheme # "https"
            \/ call.url.username # "" \/ call.url.password # ""
            \/ WrittenLocal(call.url)
            \/ call.url.host.kind \in {"ipv4", "ipv6"}
            \/ call.url.port # NULL
            \/ WrittenBlockedPath(call.url)) => ~call.result.ok
        /\ (isPrivateIpv4(call.url.host) \/ call.url.host = V6("::1"))
              => call.result.reason # "IP address links are not allowed."

\* admin bodies and bulk records whose status is empty or outside the four
\* lifecycle values
OddStatuses ==
    [reqs |-> {<<"", "", "">>},
     keys |-> {ADMIN_KEY},
     users |-> {NULL},
     patches |-> {[status |-> "archived"]},
     raws |-> {[title |-> T2, status |-> ""]},
     countIds |-> {1},
     reportIds |-> {0}]

NextStatus == NextApi(OddStatuses)

SpecStatus == Init /\ [][NextStatus]_vars

\* C20: a stored deal whose status is missing, empty or none of pending,
\* approved, rejected, disabled is returned by GET /admin/deals/pending and
\* is not returned by the public listing.
C20_UnknownIsPending ==
    \A c \in Countries : \A k \in DOMAIN store[c].deals :
        statusOf(store[c].deals[k]) \notin Statuses =>
            /\ store[c].deals[k].id \in AdminPendingResult(ADMIN_KEY, <<c, "", "">>).ids
            /\ store[c].deals[k].id \notin ListIds(store[c], now)

\* ------------------------------------------------------ routes/alerts.js
\* POST /alerts: the alert is stored in the file readDeals() opens (CA) and
\* written back with the one-argument writeDeals(store).  The alert's own id
\* and createdAt are left out.
CreateAlertResult(userId, dealId, targetPrice) ==
    LET s == readDeals("CA")
        alert == [userId |-> userId[1], dealId |-> dealId, targetPrice |-> targetPrice,
                  triggeredAt |-> NULL, active |-> TRUE]
    IN  IF userId = NULL
        THEN [code |-> 401, country |-> "CA", file |-> s]
        ELSE IF findDealIndexById(s, dealId) = 0
        THEN [code |-> 404, country |-> "CA", file |-> s]
        ELSE IF \E k \in DOMAIN s.alerts :
                    /\ s.alerts[k].userId = userId[1]
                    /\ s.alerts[k].dealId = dealId
                    /\ s.alerts[k].active
        THEN [code |-> 400, country |-> "CA", file |-> s]
        ELSE LET w == WriteCall(InArg(ObjInput([s EXCEPT !.alerts = Append(s.alerts, alert)])),
                                Undefined)
             IN  [code |-> 200, country |-> w.country, file |-> w.file]

CreateAlert(userId, dealId, targetPrice) ==
    LET r == CreateAlertResult(userId, dealId, targetPrice)
    IN  /\ Len(r.file.alerts) <= MaxAlerts
        /\ Persist(r)
        /\ UNCHANGED <<points, now, nextId, awardLog, resetLog, call, env, inflight, acked, legacyFiles, bootLog>>

\* price watches on ingested deals and admin updates of the price
Prices == {1, 2}
AlertRaws == {[title |-> T2, price |-> 2], [title |-> T3]}
AlertPatches == {[price |-> 1], [price |-> 2], [id |-> 2, price |-> 1]}
AlertUsers == {NULL, Some("u1"), Some("u2")}

NextAlerts ==
    \/ \E incoming \in SeqsUpTo(AlertRaws, MaxBatch) :
            Bulk(ADMIN_KEY, <<"", "", "">>, incoming)
    \/ \E userId \in AlertUsers, dealId \in DealIds, targetPrice \in Prices :
            CreateAlert(userId, dealId, targetPrice)
    \/ \E id \in DealIds, patch \in AlertPatches :
            Update(ADMIN_KEY, <<"", "", "">>, id, patch)

SpecAlerts == Init /\ [][NextAlerts]_vars

\* the alerts the documented rule leaves behind when the price of deal id
\* becomes p at time ts
DocumentedAlerts(alerts, id, p, ts) ==
    [k \in DOMAIN alerts |->
        IF /\ alerts[k].triggeredAt = NULL
           /\ alerts[k].dealId = id
           /\ alerts[k].targetPrice >= p
        THEN Spread(alerts[k], [triggeredAt |-> Some(ts), active |-> FALSE])
        ELSE alerts[k]]

SubmitFreshRead(h) == readDeals(storeCountry(h.country))

\* the store object the resumed handler unshifts its deal onto
SubmitSnapshot(h) == h.snapshot

\* POST /deals up to the await: the country, the store read, the validated body
SubmitBegin(req, body, user) ==
    /\ body.title # <<>>
    /\ Cardinality(inflight) < MaxInflight
    /\ inflight' = inflight \cup
            {[country |-> publicWriteCountry(req),
              snapshot |-> readDeals(storeCountry(publicWriteCountry(req))),
              title |-> body.title,
              user |-> user]}
    /\ UNCHANGED <<store, points, now, nextId, awardLog, resetLog, call, env, acked, legacyFiles, bootLog>>

\* POST /deals after the await
SubmitFinishResult(h) ==
    LET s == SubmitSnapshot(h)
        deal == [id |-> nextId,
                 title |-> h.title,
                 status |-> "pending",
                 country |-> h.country,
                 expiresAt |-> NULL,
                 views |-> 0,
                 clicks |-> 0,
                 createdByUserId |-> h.user,
                 pointsAwarded |-> FALSE]
    IN  [code |-> 201, country |-> h.country,
         file |-> writeDeals(readDeals(storeCountry(h.country)),
                             ObjInput([s EXCEPT !.deals = <<deal>> \o s.deals])),
         nid |-> nextId + 1, deal |-> <<deal>>]

SubmitFinish(h) ==
    LET r == SubmitFinishResult(h)
    IN  /\ r.nid <= MaxId + 1
        /\ Persist(r)
        /\ nextId' = r.nid
        /\ inflight' = inflight \ {h}
        /\ acked' = acked \cup {[op |-> "submit", id |-> r.deal[1].id, country |-> r.country]}
        /\ UNCHANGED <<points, now, awardLog, resetLog, call, env, legacyFiles, bootLog>>

\* POST /deals/:id/click answered with 200
ClickAcked(req, id) ==
    LET r == CountResult("clicks", req, id)
    IN  /\ r.code = 200
        /\ CountersBounded(r.file)
        /\ Persist(r)
        /\ acked' = acked \cup {[op |-> "click", id |-> id, country |-> r.country]}
        /\ UNCHANGED <<points, now, nextId, awardLog, resetLog, call, env, inflight, legacyFiles, bootLog>>

ConcurrentReqs == {<<"", "", "">>, <<"US", "", "">>}

NextConcurrent ==
    \/ \E req \in ConcurrentReqs : AdminCreate(ADMIN_KEY, req[1], T3)
    \/ \E req \in ConcurrentReqs, user \in {NULL, Some("u1")} :
            SubmitBegin(req, [title |-> T1], user)
    \/ \E h \in inflight : SubmitFinish(h)
    \/ \E req \in ConcurrentReqs, id \in DealIds : ClickAcked(req, id)

SpecConcurrent == Init /\ [][NextConcurrent]_vars

\* C22: store operations are not safe under concurrent writers.  A POST
\* /deals handler resumed after its await writes the store it read before
\* the await plus its own deal, whatever was persisted in between; a state
\* is reachable in which a click and a submit were both answered with
\* success and the click's increment is not in the persisted store.
C22_StaleSnapshotWritten ==
    \A h \in inflight :
        SubmitFinishResult(h).file.deals
            = SubmitFinishResult(h).deal \o h.snapshot.deals

\* both requests answered with success, the submitted deal persisted, the
\* clicked deal persisted with no click
C22_Witness ==
    /\ inflight = {}
    /\ \E a, b \in acked :
          /\ a.op = "click" /\ b.op = "submit" /\ a.country = b.country
          /\ \E i, j \in DOMAIN store[a.country].deals :
                /\ store[a.country].deals[i].id = a.id
                /\ store[a.country].deals[i].clicks = 0
                /\ store[a.country].deals[j].id = b.id

\* ------------------------------------------------------------ module load
\* A file on disk is NULL when it does not exist, else Some(content); a
\* content that is not JSON is Garbage.
Garbage == [unparsable |-> TRUE]

isGarbage(file) == Has(file[1], "unparsable")

readDealsCount(file) ==
    IF file = NULL THEN 0
    ELSE IF isGarbage(file) THEN 0
    ELSE IF Has(file[1], "deals") THEN Len(file[1].deals) ELSE 0

safeReadJson(file) == IF file = NULL \/ isGarbage(file) THEN NULL ELSE file

hasDealsData(obj) == obj # NULL /\ Has(obj[1], "deals") /\ Len(obj[1].deals) > 0

\* Array.isArray(parsed[f]) ? parsed[f] : []
ArrayOr(parsed, f) == IF Has(parsed, f) THEN parsed[f] ELSE <<>>

\* variant: the destination is never looked at
DestinationAny(CA_EXISTS, CA_COUNT) == TRUE

\* !CA_EXISTS || CA_COUNT === 0
DestinationEmpty(CA_EXISTS, CA_COUNT) == ~CA_EXISTS \/ CA_COUNT = 0

\* CANDIDATES.find(f => fs.existsSync(f) && readDealsCount(f) > 0), 0 if none
FindSource(files) ==
    IF \E i \in DOMAIN files : readDealsCount(files[i]) > 0
    THEN CHOOSE i \in DOMAIN files :
            /\ readDealsCount(files[i]) > 0
            /\ \A j \in 1..(i - 1) : readDealsCount(files[j]) = 0
    ELSE 0

\* migrateSingleStoreToCA(): what it did and the CA file it leaves, given the
\* CA file (ca, meaningful when CA_EXISTS) and the legacy candidates
migrateSingleStoreToCA(ca, CA_EXISTS, files) ==
    LET CA_COUNT == IF CA_EXISTS THEN Len(ca.deals) ELSE 0
        source == FindSource(files)
    IN  IF source = 0 THEN [outcome |-> "no source", file |-> ca]
        ELSE IF DestinationEmpty(CA_EXISTS, CA_COUNT)
        THEN LET parsed == safeReadJson(files[source])
             IN  IF ~hasDealsData(parsed)
                 THEN [outcome |-> "skipped", file |-> ca]
                 ELSE [outcome |-> "migrated",
                       file |-> [deals |-> parsed[1].deals,
                                 reports |-> ArrayOr(parsed[1], "reports"),
                                 alerts |-> ArrayOr(parsed[1], "alerts")]]
        ELSE [outcome |-> "skipped", file |-> ca]

MaxBoots == 3

\* the module has been loaded: both country files exist (ensureStore) and the
\* routes are served
Running == bootLog # <<>>

\* Module load of the store: the migration, then ensureStore("CA") and
\* ensureStore("US"), which create the files that do not exist, empty.
Boot ==
    /\ Len(bootLog) < MaxBoots
    /\ LET m == migrateSingleStoreToCA(store["CA"], Running, legacyFiles)
       IN  /\ store' = [store EXCEPT !["CA"] = m.file]
           /\ bootLog' = Append(bootLog, [outcome |-> m.outcome, before |-> store["CA"]])
    /\ UNCHANGED <<points, now, nextId, awardLog, resetLog, call, env, inflight, acked, legacyFiles>>

\* legacy contents: deals written before the store was split by country
LegacyDeal == [id |-> 1, title |-> T2, status |-> "approved"]
LegacyStore == [deals |-> <<LegacyDeal>>, reports |-> <<>>]

LegacyDisks ==
    {<<NULL, NULL, NULL>>,
     <<Some(LegacyStore), NULL, NULL>>,
     <<Some([deals |-> <<>>]), NULL, Some(LegacyStore)>>,
     <<Some(Garbage), Some(LegacyStore), NULL>>}

\* before the first module load: no country file yet, the legacy ids taken
InitBoot ==
    /\ store = [c \in Countries |-> EmptyStore]
    /\ points = [u \in Users |-> 0]
    /\ now = 0
    /\ nextId = 2
    /\ awardLog = [i \in DealIds |-> 0]
    /\ resetLog = [i \in DealIds |-> 0]
    /\ call = [op |-> "none"]
    /\ env = Unset
    /\ inflight = {}
    /\ acked = {}
    /\ legacyFiles \in LegacyDisks
    /\ bootLog = <<>>

BootReqs == {<<"", "", "">>, <<"US", "", "">>}
BootRaws == {[title |-> T3]}

\* restarts interleaved with the operations that write the store
NextBoot ==
    \/ Boot
    \/ Running /\ \E req \in BootReqs : Submit(req, "", [title |-> T1, status |-> ""], NULL)
    \/ Running /\ \E req \in BootReqs, id \in DealIds : Reject(ADMIN_KEY, req, id)
    \/ Running /\ \E req \in BootReqs, id \in DealIds : Delete(ADMIN_KEY, req, id)
    \/ Running /\ \E req \in BootReqs, incoming \in SeqsUpTo(BootRaws, MaxBatch) :
            Bulk(ADMIN_KEY, req, incoming)

SpecBoot == InitBoot /\ [][NextBoot]_vars

Migrations == {i \in DOMAIN bootLog : bootLog[i].outcome = "migrated"}

\* C23: the legacy migration runs at most once.  Over every sequence of
\* module loads interleaved with submit, reject, delete and bulk upsert
\* (writes blocked by the empty-write guard included) at most one module load
\* copied legacy data into the CA file, and every module load that did found
\* the CA file without a deal.
C23_MigratesOnce ==
    /\ Cardinality(Migrations) <= 1
    /\ \A i \in Migrations : bootLog[i].before.deals = <<>>

\* a module load migrated, the store was written, and a later module load
\* found the changed CA file and left it alone
C23_Witness ==
    \E i, j \in DOMAIN bootLog :
        /\ i < j
        /\ bootLog[i].outcome = "migrated"
        /\ bootLog[j].outcome = "skipped"
        /\ bootLog[j].before.deals # <<LegacyDeal>>
        /\ store["CA"] = bootLog[j].before

\* ------------------------------------------------------- readDeals on disk
\* The country file as the file system holds it: whether its directory
\* exists, the file (NULL when missing, else its content), whether the file
\* can be read, and whether the location accepts mkdir and write.  A parsed
\* content maps field names to values; a value is an array [arr |-> seq] or
\* something else.
Arr(seq) == [arr |-> seq]
NotArr == [other |-> TRUE]
isArray(v) == Has(v, "arr")

JsonNull == [jsonNull |-> TRUE]

EmptyStoreJson == [deals |-> Arr(<<>>), reports |-> Arr(<<>>), alerts |-> Arr(<<>>)]

\* ensureStore(country): mkdirSync when the directory is missing, then
\* safeWriteJson of an empty store when the file is missing; neither call is
\* inside a try
ensureStore(disk) ==
    IF ~disk.dir /\ ~disk.writable THEN [threw |-> TRUE, disk |-> disk]
    ELSE IF disk.file = NULL /\ ~disk.writable
    THEN [threw |-> TRUE, disk |-> [disk EXCEPT !.dir = TRUE]]
    ELSE IF disk.file = NULL
    THEN [threw |-> FALSE,
          disk |-> [disk EXCEPT !.dir = TRUE, !.file = Some(EmptyStoreJson)]]
    ELSE [threw |-> FALSE, disk |-> disk]

\* Array.isArray(parsed[f]) ? parsed[f] : []
ArrayField(parsed, f) ==
    IF Has(parsed, f) /\ isArray(parsed[f]) THEN parsed[f].arr ELSE <<>>

\* readDeals(country) on that file: ensureStore, then read and parse inside
\* try/catch
readDealsFs(disk) ==
    LET e == ensureStore(disk)
        content == e.disk.file[1]
    IN  IF e.threw THEN [threw |-> TRUE, disk |-> e.disk, store |-> NULL]
        ELSE IF \/ ~e.disk.readable
                \/ Has(content, "unparsable")
                \/ Has(content, "jsonNull")
        THEN [threw |-> FALSE, disk |-> e.disk, store |-> Some(EmptyStore)]
        ELSE [threw |-> FALSE, disk |-> e.disk,
              store |-> Some([deals |-> ArrayField(content, "deals"),
                              reports |-> ArrayField(content, "reports"),
                              alerts |-> ArrayField(content, "alerts")])]

FileContents ==
    {Garbage, JsonNull, EmptyStoreJson,
     [deals |-> Arr(<<W1>>)],
     [deals |-> NotArr, reports |-> Arr(<<R1>>), alerts |-> Arr(<<A1>>)],
     [deals |-> Arr(<<W1>>), reports |-> NotArr, alerts |-> NotArr]}

\* a file exists only inside an existing directory
Disks ==
    {d \in [dir : BOOLEAN, file : {NULL} \cup {Some(c) : c \in FileContents},
            readable : BOOLEAN, writable : BOOLEAN] :
        d.file # NULL => d.dir}

InitRead ==
    /\ store = [c \in Countries |-> EmptyStore]
    /\ points = [u \in Users |-> 0]
    /\ now = 0
    /\ nextId = 1
    /\ awardLog = [i \in DealIds |-> 0]
    /\ resetLog = [i \in DealIds |-> 0]
    /\ \E d \in Disks, c \in {"CA", "us"} : call = [op |-> "disk", country |-> c, disk |-> d]
    /\ env = Unset
    /\ inflight = {}
    /\ acked = {}
    /\ legacyFiles = <<NULL, NULL, NULL>>
    /\ bootLog = <<>>

CallReadDealsFs ==
    /\ call.op = "disk"
    /\ LET r == readDealsFs(call.disk)
       IN  call' = [op |-> "readDeals", country |-> normalizeCountry(call.country),
                    before |-> call.disk, after |-> r.disk,
                    threw |-> r.threw, store |-> r.store]
    /\ UNCHANGED <<store, points, now, nextId, awardLog, resetLog, env, inflight, acked, legacyFiles, bootLog>>

NextRead == CallReadDealsFs

SpecRead == InitRead /\ [][NextRead]_vars

\* C24: readDeals(country) never throws: whether the file or its directory
\* is missing, the file unreadable or its content not JSON, the call returns
\* a store whose collections are arrays, and a file that existed before the
\* call is the same after it.
C24_NeverThrows ==
    (call.op = "readDeals") =>
        /\ ~call.threw
        /\ call.store # NULL
        /\ (call.before.file # NULL => call.after.file = call.before.file)

\* ------------------------------------------------- repeated submissions
SubmittedUrls == {<<>>, U1, U2, U3, <<"shop.com", "/p1">>}

NextDuplicate ==
    \/ Tick
    \/ \E req \in {<<"", "", "">>, <<"US", "", "">>}, title \in {<<>>, T1, T3},
          url \in SubmittedUrls, user \in {NULL, Some("u1")} :
            Submit(req, "", [title |-> title, status |-> "", url |-> url], user)

SpecDuplicate == Init /\ [][NextDuplicate]_vars

\* the country's deals submitted at this clock reading with the link url
SameLinkNow(country, url) ==
    {i \in DOMAIN readDeals(storeCountry(country)).deals :
        LET d == readDeals(storeCountry(country)).deals[i]
        IN  Has(d, "url") /\ d.url = url /\ d.createdAt = now}

\* C25: a public submission whose canonical URL equals that of a deal
\* submitted inside the rolling window (here: at the same clock reading, which
\* is inside every window) is answered 409 and the store is left as it was.
C25_DuplicateRejected ==
    \A req \in {<<"", "", "">>, <<"US", "", "">>}, url \in SubmittedUrls \ {<<>>} :
        LET r == SubmitResult(req, "", [title |-> T1, status |-> "", url |-> url], NULL)
        IN  SameLinkNow(r.country, SubmitUrl([url |-> url])[1]) # {} =>
                /\ r.code = 409
                /\ r.file = readDeals(storeCountry(r.country))

\* ------------------------------------------------------ merge on upsert
\* incoming records for a stored key: no status, an empty one, a defined one
MergeRaws ==
    {[title |-> T2], [title |-> T2, status |-> ""], [title |-> T2, status |-> "pending"]}

Defines(d, f) == Has(d, f) /\ d[f] # ""

\* the status the documented merge gives
DocumentedMergeStatus(current, raw) ==
    IF Defines(current, "status") THEN current.status
    ELSE IF Defines(raw, "status") THEN raw.status
    ELSE "approved"

\* C26: merging an incoming record onto the stored record with the same key
\* keeps the stored id and gives the stored status when there is one, else
\* the incoming status when there is one, else "approved".
C26_MergeKeepsIdAndStatus ==
    \A c \in Countries, raw \in MergeRaws :
        LET map == IndexExisting(store[c].deals, <<>>)
            key == getDealKey(raw)
        IN  MapHas(map, key) =>
                LET current == MapGet(map, key)
                    merged == MergeDeal(current, raw)
                IN  /\ merged.id = current.id
                    /\ merged.status = DocumentedMergeStatus(current, raw)

\* ------------------------------------------------------ admin credential
AuthReqs == {<<"", "", "">>, <<"US", "", "">>}
AuthPatches == {[status |-> "disabled"]}
AuthRaws == {[title |-> T2]}

AuthKeys == {ADMIN_KEY, "wrong"}

\* a signed-in user's submissions and the eight admin endpoints, called with
\* the admin key and with a wrong key
NextAuth ==
    \/ \E req \in AuthReqs : Submit(req, "", [title |-> T1, status |-> ""], Some("u1"))
    \/ \E key \in AuthKeys, req \in AuthReqs : AdminList(key, req)
    \/ \E key \in AuthKeys, req \in AuthReqs : AdminPending(key, req)
    \/ \E key \in AuthKeys, req \in AuthReqs : AdminCreate(key, req[1], T3)
    \/ \E key \in AuthKeys, req \in AuthReqs, incoming \in SeqsUpTo(AuthRaws, MaxBatch) :
            Bulk(key, req, incoming)
    \/ \E key \in AuthKeys, req \in AuthReqs, id \in DealIds, patch \in AuthPatches :
            Update(key, req, id, patch)
    \/ \E key \in AuthKeys, req \in AuthReqs, id \in DealIds : Approve(key, req, id)
    \/ \E key \in AuthKeys, req \in AuthReqs, id \in DealIds : Reject(key, req, id)
    \/ \E key \in AuthKeys, req \in AuthReqs, id \in DealIds : Delete(key, req, id)

SpecAuth == Init /\ [][NextAuth]_vars

Refused(r) == r.code \in {401, 403} /\ r.file = store[r.country]

\* C27: every admin endpoint called with a missing or wrong admin key
\* answers 403 or 401, and the file it would persist, the ids it would
\* consume and the users' points it would write are the ones already there.
C27_UnauthorizedNoEffect ==
    \A key \in BadKeys, req \in AuthReqs :
        /\ AdminListResult(key, req).code = 403
        /\ AdminListResult(key, req).ids = {}
        /\ AdminPendingResult(key, req).code = 403
        /\ AdminPendingResult(key, req).ids = {}
        /\ Refused(AdminCreateResult(key, req[1], T3))
        /\ AdminCreateResult(key, req[1], T3).nid = nextId
        /\ \A incoming \in SeqsUpTo(AuthRaws, MaxBatch) :
              /\ Refused(BulkResult(key, req, incoming))
              /\ BulkResult(key, req, incoming).nid = nextId
        /\ \A id \in DealIds :
              /\ \A patch \in AuthPatches : Refused(UpdateResult(key, req, id, patch))
              /\ Refused(ApproveResult(key, req, id))
              /\ ApproveResult(key, req, id).users = points
              /\ ApproveResult(key, req, id).awarded = {}
              /\ Refused(RejectResult(key, req, id))
              /\ Refused(DeleteResult(key, req, id))

\* a store in which the admin key would approve a user's pending deal and
\* award its points, and the same request with a wrong key is refused
C27_Witness ==
    \E req \in AuthReqs, id \in DealIds :
        /\ ApproveResult(ADMIN_KEY, req, id).code = 200
        /\ ApproveResult(ADMIN_KEY, req, id).users # points
        /\ ApproveResult(ADMIN_KEY, req, id).file # store[ApproveResult(ADMIN_KEY, req, id).country]
        /\ ApproveResult("wrong", req, id).code = 403
        /\ DeleteResult(ADMIN_KEY, req, id).file # store[DeleteResult(ADMIN_KEY, req, id).country]
        /\ DeleteResult("", req, id).code = 403

\* ------------------------------------------------ routes/adminDeals.js
\* String(req.query.country || req.body.country || "CA").toUpperCase() === "US"
hardDeleteCountry(req) ==
    normalizeCountry(IF req[1] # "" THEN req[1] ELSE IF req[3] # "" THEN req[3] ELSE "CA")

\* POST /admin/deals/:id/delete (country-aware): the deals of the country
\* without the one named, handed to writeDeals(remaining, country); target
\* is the country whose file that call writes
HardDeleteResult(key, req, id) ==
    LET country == hardDeleteCountry(req)
        s == readDeals(country)
        remaining == SelectSeq(s.deals, LAMBDA d : d.id # id)
        w == WriteCall(InArg(ArrInput(remaining)), StrArg(country))
    IN  IF ~requireAdmin(key)
        THEN [code |-> 403, country |-> country, target |-> country, file |-> s]
        ELSE IF Len(remaining) = Len(s.deals)
        THEN [code |-> 404, country |-> country, target |-> country, file |-> s]
        ELSE [code |-> 200, country |-> country, target |-> w.country, file |-> w.file]

HardDelete(key, req, id) ==
    LET r == HardDeleteResult(key, req, id)
    IN  /\ store' = [store EXCEPT ![r.target] = r.file]
        /\ UNCHANGED <<points, now, nextId, awardLog, resetLog, call, env, inflight, acked, legacyFiles, bootLog>>

PartitionReqs == {<<"", "", "">>, <<"US", "", "">>, <<"", "", "us">>}

NextPartition ==
    \/ \E req \in PartitionReqs, user \in {NULL, Some("u1")} :
            Submit(req, "", [title |-> T1, status |-> ""], user)
    \/ \E req \in PartitionReqs, title \in {T2, T3} : AdminCreate(ADMIN_KEY, req[3], title)
    \/ \E req \in PartitionReqs, id \in DealIds : Approve(ADMIN_KEY, req, id)
    \/ \E req \in PartitionReqs, id \in DealIds : Delete(ADMIN_KEY, req, id)
    \/ \E req \in PartitionReqs, id \in DealIds : HardDelete(ADMIN_KEY, req, id)

SpecPartition == Init /\ [][NextPartition]_vars

\* C28: storage is partitioned by country.  A writeDeals(country, input)
\* call writes the file of that country, and a hard delete resolved to
\* country C writes C's file, which then no longer holds the deal.
C28_WritesOwnCountry ==
    /\ \A c \in {"ca", "us", "CA", "US"}, input \in WriteInputs :
          WriteCall(StrArg(c), InArg(input)).country = normalizeCountry(c)
    /\ \A req \in PartitionReqs, id \in DealIds :
          LET r == HardDeleteResult(ADMIN_KEY, req, id)
          IN  r.code = 200 =>
                /\ r.target = r.country
                /\ \A k \in DOMAIN r.file.deals : r.file.deals[k].id # id

\* ------------------------------------------------- upsert keeps the store
DealIdsOf(file) == {file.deals[k].id : k \in DOMAIN file.deals}

UpsertBatches == SeqsUpTo({[title |-> T2], [title |-> T3]}, MaxBatch)

\* C29: upsertDeals never loses a stored deal.  Whatever the API stored in
\* a country and whatever the batch, every id stored before the call is
\* stored after it, and the total returned is the number of deals persisted.
C29_UpsertKeepsDeals ==
    \A c \in Countries, incoming \in UpsertBatches :
        LET r == upsertDeals(readDeals(c), incoming, nextId)
        IN  /\ DealIdsOf(readDeals(c)) \subseteq DealIdsOf(r.file)
            /\ r.total = Len(r.file.deals)

\* --------------------------------------------- reports and alerts kept
ArrayCalls == CallForms({ArrInput(ds) : ds \in Singles({W1, W2})})
UpsertCalls == CallForms({ArrInput(ds) : ds \in Singles(StoreRaws)})

\* C30: writeDeals and upsertDeals called with a bare deals array leave the
\* reports and the alerts of the country they write exactly as they were.
C30_ArrayKeepsReportsAlerts ==
    /\ \A f \in ArrayCalls :
          LET r == WriteCall(f[1], f[2])
          IN  /\ r.file.reports = readDeals(r.country).reports
              /\ r.file.alerts = readDeals(r.country).alerts
    /\ \A f \in UpsertCalls :
          LET r == UpsertCall(f[1], f[2])
          IN  /\ r.file.reports = readDeals(r.country).reports
              /\ r.file.alerts = readDeals(r.country).alerts

\* a country file holding a report and an alert, where an array write would
\* replace the deals and the last call was an upsert that added a deal
C30_Witness ==
    /\ call.op = "upsertDeals"
    /\ ~call.threw
    /\ call.addedCount >= 1
    /\ readDeals(call.country).reports # <<>>
    /\ readDeals(call.country).alerts # <<>>
    /\ \E f \in ArrayCalls :
          /\ WriteCall(f[1], f[2]).country = call.country
          /\ WriteCall(f[1], f[2]).file.deals # readDeals(call.country).deals

====
